---- MODULE Spec2Model ----
(***************************************************************************)
(* Model of ReactMigrationTool (src/src/index.ts, the extended variant     *)
(* that starts at line 1199): the migrate() orchestration, the dependency  *)
(* resolver and the regex rewrite pipeline, over an abstract file system.  *)
(***************************************************************************)
EXTENDS Naturals, Sequences, FiniteSets, TLC

(***************************************************************************)
(* Values of JavaScript that the code tests for truthiness.                *)
(***************************************************************************)
\* the value of a property that is not there (obj.key, obj?.key)
Undefined == "<undefined>"

\* if (x): a string is truthy unless it is empty; undefined is falsy
Truthy(v) == v # Undefined /\ v # ""

(***************************************************************************)
(* Target versions. The code keeps them as strings and compares them as    *)
(* strings (this.targetVersion >= '18'), so Digits gives their characters. *)
(***************************************************************************)
SupportedVersions == {"17", "18", "19"}

\* the strings offered as a target version: the supported ones and the two
\* the spec names as invalid ("16", "20")
AllVersions == SupportedVersions \cup {"16", "20"}

Digits(v) ==
    CASE v = "16" -> <<1, 6>>
      [] v = "17" -> <<1, 7>>
      [] v = "18" -> <<1, 8>>
      [] v = "19" -> <<1, 9>>
      [] v = "20" -> <<2, 0>>

\* a >= b on strings: lexicographic order of the code units
RECURSIVE SeqGE(_, _)
SeqGE(a, b) ==
    IF b = <<>> THEN TRUE
    ELSE IF a = <<>> THEN FALSE
    ELSE IF Head(a) > Head(b) THEN TRUE
    ELSE IF Head(a) < Head(b) THEN FALSE
    ELSE SeqGE(Tail(a), Tail(b))

StrGE(v, w) == SeqGE(Digits(v), Digits(w))

(***************************************************************************)
(* The manifest (package.json): two optional sections, each a map from     *)
(* package name to version range.                                          *)
(***************************************************************************)
NoEntries == [p \in {} |-> ""]

AbsentSection == [has |-> FALSE, ent |-> NoEntries]

\* section?.[pkg]
Get(sec, pkg) ==
    IF sec.has /\ pkg \in DOMAIN sec.ent THEN sec.ent[pkg] ELSE Undefined

\* section[pkg] = v: replaces the value, or adds the key when it is not there
Put(sec, pkg, v) ==
    [sec EXCEPT !.ent = [k \in (DOMAIN sec.ent) \cup {pkg} |->
                            IF k = pkg THEN v ELSE sec.ent[k]]]

Keys(sec) == IF sec.has THEN DOMAIN sec.ent ELSE {}

(***************************************************************************)
(* getReactRelatedPackages and the forty get...Version methods: one row    *)
(* per package, <<name, '17', '18', '19', fallback>>.                      *)
(***************************************************************************)
PackageTable == <<
    <<"@testing-library/react", "^11.0.0", "^13.0.0", "^14.0.0", "^13.0.0">>,
    <<"@types/react", "^17.0.0", "^18.0.0", "^18.0.0", "^18.0.0">>,
    <<"@types/react-dom", "^17.0.0", "^18.0.0", "^18.0.0", "^18.0.0">>,
    <<"react-router-dom", "^6.0.0", "^6.8.0", "^6.20.0", "^6.8.0">>,
    <<"react-router", "^6.0.0", "^6.8.0", "^6.20.0", "^6.8.0">>,
    <<"react-scripts", "^5.0.0", "^5.0.1", "^5.0.1", "^5.0.1">>,
    <<"react-redux", "^8.0.0", "^8.0.5", "^9.0.0", "^8.0.5">>,
    <<"@reduxjs/toolkit", "^1.8.0", "^1.9.0", "^2.0.0", "^1.9.0">>,
    <<"react-hook-form", "^7.40.0", "^7.45.0", "^7.48.0", "^7.45.0">>,
    <<"formik", "^2.2.9", "^2.4.0", "^2.4.5", "^2.4.0">>,
    <<"styled-components", "^5.3.0", "^6.0.0", "^6.1.0", "^6.0.0">>,
    <<"@emotion/react", "^11.10.0", "^11.11.0", "^11.11.0", "^11.11.0">>,
    <<"@emotion/styled", "^11.10.0", "^11.11.0", "^11.11.0", "^11.11.0">>,
    <<"react-transition-group", "^4.4.2", "^4.4.5", "^4.4.5", "^4.4.5">>,
    <<"react-select", "^5.4.0", "^5.7.0", "^5.8.0", "^5.7.0">>,
    <<"react-datepicker", "^4.8.0", "^4.16.0", "^4.20.0", "^4.16.0">>,
    <<"react-modal", "^3.15.0", "^3.16.0", "^3.16.0", "^3.16.0">>,
    <<"react-helmet", "^6.1.0", "^6.1.0", "^6.1.0", "^6.1.0">>,
    <<"react-helmet-async", "^1.3.0", "^1.3.0", "^2.0.0", "^1.3.0">>,
    <<"react-virtualized", "^9.22.3", "^9.22.3", "^9.22.3", "^9.22.3">>,
    <<"react-window", "^1.8.6", "^1.8.8", "^1.8.8", "^1.8.8">>,
    <<"react-dnd", "^16.0.0", "^16.0.1", "^16.0.1", "^16.0.1">>,
    <<"react-beautiful-dnd", "^13.1.0", "^13.1.1", "^13.1.1", "^13.1.1">>,
    <<"react-dropzone", "^14.2.0", "^14.2.3", "^14.2.3", "^14.2.3">>,
    <<"react-table", "^7.8.0", "^7.8.0", "^7.8.0", "^7.8.0">>,
    <<"@tanstack/react-table", "^8.9.0", "^8.10.0", "^8.11.0", "^8.10.0">>,
    <<"react-query", "^3.39.0", "^3.39.0", "^3.39.0", "^3.39.0">>,
    <<"@tanstack/react-query", "^4.29.0", "^4.36.0", "^5.0.0", "^4.36.0">>,
    <<"react-spring", "^9.7.0", "^9.7.0", "^9.7.0", "^9.7.0">>,
    <<"framer-motion", "^10.0.0", "^10.16.0", "^11.0.0", "^10.16.0">>,
    <<"react-intl", "^6.4.0", "^6.5.0", "^6.6.0", "^6.5.0">>,
    <<"react-i18next", "^12.3.0", "^13.5.0", "^14.0.0", "^13.5.0">>,
    <<"next", "^13.0.0", "^14.0.0", "^14.0.0", "^14.0.0">>,
    <<"gatsby", "^5.0.0", "^5.12.0", "^5.12.0", "^5.12.0">>,
    <<"react-hot-toast", "^2.4.0", "^2.4.1", "^2.4.1", "^2.4.1">>,
    <<"react-toastify", "^9.1.0", "^9.1.3", "^10.0.0", "^9.1.3">>,
    <<"react-icons", "^4.10.0", "^4.12.0", "^5.0.0", "^4.12.0">>,
    <<"react-use", "^17.4.0", "^17.5.0", "^17.5.0", "^17.5.0">>,
    <<"react-error-boundary", "^4.0.0", "^4.0.11", "^4.0.11", "^4.0.11">>,
    <<"react-loadable", "^5.5.0", "^5.5.0", "^5.5.0", "^5.5.0">>,
    <<"@loadable/component", "^5.15.0", "^5.16.0", "^5.16.0", "^5.16.0">>,
    <<"react-lazyload", "^3.2.0", "^3.2.0", "^3.2.0", "^3.2.0">>,
    <<"react-intersection-observer", "^9.4.0", "^9.5.0", "^9.5.0", "^9.5.0">>
>>

TablePackages == {PackageTable[i][1] : i \in 1..Len(PackageTable)}

\* versionMap[this.targetVersion] || fallback
versionMapLookup(row, tv) ==
    IF tv = "17" THEN row[2]
    ELSE IF tv = "18" THEN row[3]
    ELSE IF tv = "19" THEN row[4]
    ELSE row[5]

getReactRelatedPackages(tv) ==
    [i \in 1..Len(PackageTable) |->
        <<PackageTable[i][1], versionMapLookup(PackageTable[i], tv)>>]

(***************************************************************************)
(* File contents. A content is a sequence of tokens; the text of the file  *)
(* is their concatenation. Every token is atomic for the character classes *)
(* of the code's regular expressions: the delimiters ) ; } are tokens of   *)
(* their own (three import tokens hold a brace pair, see BraceSplit), a    *)
(* markup tag <...> is one token, and white space is one token per         *)
(* character.                                                              *)
(***************************************************************************)
RECURSIVE Flat(_)
\* the text of a content
Flat(s) == IF s = <<>> THEN "" ELSE Head(s) \o Flat(Tail(s))

\* content !== other, on the texts
SameText(s, t) == Flat(s) = Flat(t)

Min(S) == CHOOSE i \in S : \A j \in S : i <= j

\* the least index of S, 0 when there is none
FirstIdx(S) == IF S = {} THEN 0 ELSE Min(S)

\* \s
WhiteSpace == {" ", "\n"}

\* <[^>]+\s*\/>
SelfClosingTags == {"<App/>", "<App />", "<div/>"}

\* <\/[^>]+>
CloseTags == {"</div>"}

\* <[^>]+>
AnyTags == SelfClosingTags \cup CloseTags \cup {"<div>"}

\* \w+ : the tokens made of word characters only
WordTokens == {"class", "extends", "render", "return", "App", "Panel", "init",
               "props", "nextProps", "prevProps", "rootEl", "const", "function",
               "x", "1", "title", "componentWillMount", "componentDidMount",
               "componentWillReceiveProps", "componentWillUpdate",
               "componentDidUpdate", "SyntheticEvent", "PropTypes"}

\* content.includes(text), for a text that is one token
Includes(s, tok) == \E i \in 1..Len(s) : s[i] = tok

\* content.replace(/tok/g, by), for a text that is one token
ReplaceAll(s, tok, by) == [i \in 1..Len(s) |-> IF s[i] = tok THEN by ELSE s[i]]

\* content.replace(text, by): the first occurrence only
ReplaceFirst(s, tok, by) ==
    LET i == FirstIdx({j \in 1..Len(s) : s[j] = tok})
    IN  IF i = 0 THEN s ELSE [s EXCEPT ![i] = by]

\* the tokens of s strictly between positions a and b
Between(s, a, b) == SubSeq(s, a + 1, b - 1)

\* the first position after a that does not hold white space (\s* is greedy)
SkipWs(s, a) ==
    LET i == FirstIdx({j \in (a + 1)..Len(s) : s[j] \notin WhiteSpace})
    IN  IF i = 0 THEN Len(s) + 1 ELSE i

\* the first position after a that holds token tok, 0 when there is none
NextTok(s, a, tok) == FirstIdx({j \in (a + 1)..Len(s) : s[j] = tok})

(***************************************************************************)
(* Rule 1: transformReactDOMRender.                                        *)
(*   /ReactDOM\.render\(\s*(<[^>]+>[\s\S]*?<\/[^>]+>|<[^>]+\s*\/>),        *)
(*    \s*([^)]+)\)/g                                                       *)
(***************************************************************************)
NoMatch == [ok |-> FALSE]

\* ,\s*([^)]+)\) with the comma at position c: the container is the text up
\* to the first ")" after the comma, less the leading white space (of
\* which \s* gives the last character back when there is nothing else)
RenderRest(s, c) ==
    IF c > Len(s) \/ s[c] # "," THEN NoMatch
    ELSE LET p == NextTok(s, c, ")")
             q == SkipWs(s, c)
         IN  IF p > c + 1
             THEN [ok |-> TRUE, from |-> IF q < p THEN q ELSE p - 1,
                   to |-> p - 1, end |-> p]
             ELSE NoMatch

\* the match of renderRegex that starts at position i, if there is one
RenderMatch(s, i) ==
    IF s[i] # "ReactDOM.render(" THEN NoMatch
    ELSE LET j  == SkipWs(s, i)
             \* first alternative: a tag, the shortest text, a closing tag
             ks == {k \in (j + 1)..Len(s) :
                       s[k] \in CloseTags /\ RenderRest(s, k + 1).ok}
         IN  IF j > Len(s) THEN NoMatch
             ELSE IF s[j] \in AnyTags /\ ks # {}
             THEN LET r == RenderRest(s, Min(ks) + 1)
                  IN  [ok |-> TRUE, ef |-> j, et |-> Min(ks),
                       cf |-> r.from, ct |-> r.to, end |-> r.end]
             \* second alternative: a self-closing tag
             ELSE IF s[j] \in SelfClosingTags /\ RenderRest(s, j + 1).ok
             THEN LET r == RenderRest(s, j + 1)
                  IN  [ok |-> TRUE, ef |-> j, et |-> j,
                       cf |-> r.from, ct |-> r.to, end |-> r.end]
             ELSE NoMatch

\* renderRegex.test(content)
RenderTest(s) == \E i \in 1..Len(s) : RenderMatch(s, i).ok

\* `const root = createRoot(${container});\nroot.render(${element})`
RenderReplacement(element, container) ==
    <<"const root = createRoot(">> \o container
        \o <<")", ";", "\n", "root.render(">> \o element \o <<")">>

RECURSIVE RenderReplace(_, _)
\* transformed.replace(renderRegex, callback), from position i on
RenderReplace(s, i) ==
    IF i > Len(s) THEN <<>>
    ELSE LET m == RenderMatch(s, i)
         IN  IF m.ok
             THEN RenderReplacement(SubSeq(s, m.ef, m.et), SubSeq(s, m.cf, m.ct))
                      \o RenderReplace(s, m.end + 1)
             ELSE <<s[i]>> \o RenderReplace(s, i + 1)

ImportReactDOM == "import ReactDOM from 'react-dom'"
ImportRender == "import { render } from 'react-dom'"
ImportCreateRoot == "import { createRoot } from 'react-dom/client'"

\* a rule's result: the content it returns and what it appends to the logs
Result(c, f, i) == [content |-> c, fixes |-> f, issues |-> i]

transformReactDOMRender(content, fileName) ==
    IF RenderTest(content)
    THEN LET transformed ==
                 IF Includes(content, ImportReactDOM)
                 THEN ReplaceFirst(content, ImportReactDOM, ImportCreateRoot)
                 ELSE IF Includes(content, ImportRender)
                 THEN ReplaceFirst(content, ImportRender, ImportCreateRoot)
                 ELSE content
         IN  Result(RenderReplace(transformed, 1),
                    <<fileName \o ": Updated ReactDOM.render to createRoot API">>,
                    <<>>)
    ELSE Result(content, <<>>, <<>>)

(***************************************************************************)
(* Rule 2: transformLifecycleMethods.                                      *)
(***************************************************************************)
\* /componentWillReceiveProps\s*\([^)]+\)/ at position i: the position of
\* the closing parenthesis, 0 when there is no match
ReceivePropsEnd(s, i) ==
    IF s[i] # "componentWillReceiveProps" THEN 0
    ELSE LET j == SkipWs(s, i)
         IN  IF j > Len(s) \/ s[j] # "(" THEN 0
             ELSE LET p == NextTok(s, j, ")")
                  IN  IF p > j + 1 THEN p ELSE 0

RECURSIVE ReceivePropsReplace(_, _)
ReceivePropsReplace(s, i) ==
    IF i > Len(s) THEN <<>>
    ELSE LET e == ReceivePropsEnd(s, i)
         IN  IF e # 0
             THEN <<"componentDidUpdate", "(", "prevProps", ")">>
                      \o ReceivePropsReplace(s, e + 1)
             ELSE <<s[i]>> \o ReceivePropsReplace(s, i + 1)

transformLifecycleMethods(content, fileName) ==
    LET has1 == Includes(content, "componentWillMount")
        has2 == Includes(content, "componentWillReceiveProps")
        has3 == Includes(content, "componentWillUpdate")
        t1 == IF has1 THEN ReplaceAll(content, "componentWillMount", "componentDidMount")
              ELSE content
        t2 == IF has2 THEN ReceivePropsReplace(t1, 1) ELSE t1
        t3 == IF has3 THEN ReplaceAll(t2, "componentWillUpdate", "componentDidUpdate")
              ELSE t2
        f1 == IF has1
              THEN <<fileName \o ": Replaced componentWillMount with componentDidMount">>
              ELSE <<>>
        f2 == IF has2
              THEN <<fileName \o ": Replaced componentWillReceiveProps with componentDidUpdate">>
              ELSE <<>>
        f3 == IF has3
              THEN <<fileName \o ": Replaced componentWillUpdate with componentDidUpdate">>
              ELSE <<>>
    IN  Result(t3, f1 \o f2 \o f3, <<>>)

(***************************************************************************)
(* Rule 3: transformEventHandlers.                                         *)
(***************************************************************************)
\* a rule 3 that logs its issue without looking for SyntheticEvent
transformEventHandlersUnguarded(content, fileName) ==
    Result(content, <<>>,
           <<fileName \o ": Review SyntheticEvent usage - React 17+ uses native events">>)

transformEventHandlers(content, fileName) ==
    Result(content, <<>>,
           IF Includes(content, "SyntheticEvent")
           THEN <<fileName \o ": Review SyntheticEvent usage - React 17+ uses native events">>
           ELSE <<>>)

(***************************************************************************)
(* Rule 4: transformPropTypes.                                             *)
(***************************************************************************)
ImportPropTypes == "import PropTypes from 'prop-types'"

\* the tokens that start with the text "import React"
ImportReactTokens == {"import React from 'react'", ImportReactDOM,
                      "import ReactDOM from \"react-dom\""}

\* content.match(/import React[^;]+;/): the first and last position of the
\* match, <<0, 0>> when there is none
ImportReactMatch(s) ==
    LET i == FirstIdx({j \in 1..Len(s) :
                          s[j] \in ImportReactTokens /\ NextTok(s, j, ";") # 0})
    IN  IF i = 0 THEN <<0, 0>> ELSE <<i, NextTok(s, i, ";")>>

\* transformed.replace(importMatch[0], importMatch[0] + added)
InsertAfterImport(s, added) ==
    LET m == ImportReactMatch(s)
    IN  IF m[1] = 0 THEN s
        ELSE SubSeq(s, 1, m[2]) \o added \o SubSeq(s, m[2] + 1, Len(s))

transformPropTypes(content, fileName) ==
    IF Includes(content, "React.PropTypes")
    THEN LET t1 == IF ~Includes(content, ImportPropTypes)
                   THEN InsertAfterImport(content, <<"\n", ImportPropTypes, ";">>)
                   ELSE content
         IN  Result(ReplaceAll(t1, "React.PropTypes", "PropTypes"),
                    <<fileName \o ": Migrated React.PropTypes to prop-types package">>,
                    <<>>)
    ELSE Result(content, <<>>, <<>>)

(***************************************************************************)
(* Rule 5: transformReactFC.                                               *)
(***************************************************************************)
\* a rule 5 that logs one entry for each of the two aliases
transformReactFCPerAlias(content, fileName) ==
    Result(content, <<>>,
           (IF Includes(content, "React.FC")
            THEN <<fileName \o ": Consider replacing React.FC with explicit props typing">>
            ELSE <<>>) \o
           (IF Includes(content, "React.FunctionComponent")
            THEN <<fileName \o ": Consider replacing React.FC with explicit props typing">>
            ELSE <<>>))

transformReactFC(content, fileName) ==
    Result(content, <<>>,
           IF Includes(content, "React.FC") \/ Includes(content, "React.FunctionComponent")
           THEN <<fileName \o ": Consider replacing React.FC with explicit props typing">>
           ELSE <<>>)

(***************************************************************************)
(* Rule 6: transformClassToFunctional.                                     *)
(*   /class\s+(\w+)\s+extends\s+React\.Component\s*{([\s\S]*?)}/g          *)
(***************************************************************************)
ImportUseState == "import { useState } from 'react'"

\* the tokens that hold a closing brace
BraceTokens == {"}", ImportRender, ImportCreateRoot, ImportUseState}

\* the text of such a token before and after its closing brace
BraceSplit(tok) ==
    CASE tok = "}" -> <<"", "">>
      [] tok = ImportRender -> <<"import { render ", " from 'react-dom'">>
      [] tok = ImportCreateRoot -> <<"import { createRoot ", " from 'react-dom/client'">>
      [] tok = ImportUseState -> <<"import { useState ", " from 'react'">>

\* the tokens that hold the text "useState"
UseStateTokens == {"const [state, setState] = useState(", ImportUseState,
                   "import { useState "}

\* the match of classComponentRegex that starts at position i: the name is
\* the word after "class", the body runs from the opening brace to the
\* first closing brace after it
ClassMatch(s, i) ==
    IF s[i] # "class" THEN NoMatch
    ELSE LET a == SkipWs(s, i)
             b == FirstIdx({j \in a..Len(s) : s[j] \notin WordTokens})
             c == SkipWs(s, b - 1)
             d == SkipWs(s, c)
             e == SkipWs(s, d)
             p == FirstIdx({j \in (e + 1)..Len(s) : s[j] \in BraceTokens})
         IN  IF /\ a > i + 1 /\ a <= Len(s)
                /\ b > a
                /\ c > b /\ c <= Len(s) /\ s[c] = "extends"
                /\ d > c + 1 /\ d <= Len(s) /\ s[d] = "React.Component"
                /\ e <= Len(s) /\ s[e] = "{"
                /\ p # 0
             THEN [ok |-> TRUE, nf |-> a, nt |-> b - 1, open |-> e, close |-> p]
             ELSE NoMatch

\* classComponentRegex.test(transformed)
ClassTest(s) == \E i \in 1..Len(s) : ClassMatch(s, i).ok

\* stateRegex /this\.state\s*=\s*({[^}]+})/ at position i: the positions of
\* the two braces, <<0, 0>> when there is no match
StateMatch(b, i) ==
    IF b[i] # "this.state" THEN <<0, 0>>
    ELSE LET j == SkipWs(b, i)
             k == SkipWs(b, j)
             p == NextTok(b, k, "}")
         IN  IF /\ j <= Len(b) /\ b[j] = "="
                /\ k <= Len(b) /\ b[k] = "{"
                /\ p > k + 1
                /\ \A x \in (k + 1)..(p - 1) : b[x] \notin BraceTokens
             THEN <<k, p>> ELSE <<0, 0>>

RECURSIVE StateReplace(_, _)
\* the replacement at position i, where stateRegex matches as m tells
StateReplaceAt(b, i, m) ==
    IF m[1] # 0
    THEN <<"const [state, setState] = useState(">> \o SubSeq(b, m[1], m[2])
             \o <<")", ";">> \o StateReplace(b, m[2] + 1)
    ELSE <<b[i]>> \o StateReplace(b, i + 1)

\* classBody.replace(stateRegex, `const [state, setState] = useState(${stateObj});`)
StateReplace(b, i) ==
    IF i > Len(b) THEN <<>> ELSE StateReplaceAt(b, i, StateMatch(b, i))

\* the text a token keeps before a match of "render(" that starts inside it
RenderPrefix(tok) ==
    IF tok = "ReactDOM.render(" THEN <<"ReactDOM.">>
    ELSE IF tok = "root.render(" THEN <<"root.">>
    ELSE <<>>

\* /render\s*\(\s*\)\s*{([\s\S]*?)return\s*([\s\S]*?);/ at position i
RenderMethodMatch(b, i) ==
    LET j == SkipWs(b, i)
        \* where the closing parenthesis has to be
        k == IF b[i] = "render"
             THEN IF j <= Len(b) /\ b[j] = "(" THEN SkipWs(b, j) ELSE 0
             ELSE IF b[i] \in {"ReactDOM.render(", "root.render("} THEN j
             ELSE 0
        l == SkipWs(b, k)
        r == NextTok(b, l, "return")
        v == SkipWs(b, r)
        e == FirstIdx({x \in v..Len(b) : b[x] = ";"})
    IN  IF /\ k # 0 /\ k <= Len(b) /\ b[k] = ")"
           /\ l <= Len(b) /\ b[l] = "{"
           /\ r # 0
           /\ e # 0
        THEN [ok |-> TRUE, open |-> l, ret |-> r, val |-> v, end |-> e]
        ELSE NoMatch

RECURSIVE RenderMethodReplace(_, _)
\* the replacement at position i, where renderRegex matches as m tells
RenderMethodReplaceAt(b, i, m) ==
    IF m.ok
    THEN RenderPrefix(b[i]) \o Between(b, m.open, m.ret)
             \o <<"return", " ">> \o SubSeq(b, m.val, m.end - 1) \o <<";">>
             \o RenderMethodReplace(b, m.end + 1)
    ELSE <<b[i]>> \o RenderMethodReplace(b, i + 1)

\* functionalBody.replace(renderRegex, `${beforeReturn}return ${returnValue};`)
RenderMethodReplace(b, i) ==
    IF i > Len(b) THEN <<>> ELSE RenderMethodReplaceAt(b, i, RenderMethodMatch(b, i))

\* the callback's functionalBody
FunctionalBody(classBody) ==
    RenderMethodReplace(
        ReplaceAll(ReplaceAll(StateReplace(classBody, 1), "this.setState(", "setState("),
                   "this.props.", "props."),
        1)

\* `const ${className} = (props) => {\n  ${functionalBody}\n};`
FunctionalComponent(className, functionalBody) ==
    <<"const", " ">> \o className
        \o <<" ", "=", " ", "(", "props", ")", " ", "=>", " ", "{", "\n", " ", " ">>
        \o functionalBody \o <<"\n", "}", ";">>

RECURSIVE ClassReplace(_)
\* the callback on the match m at the head of s; split is the text before and
\* after the brace in the token that closes the class body
ClassCallback(s, m, split) ==
    FunctionalComponent(
        SubSeq(s, m.nf, m.nt),
        FunctionalBody(Between(s, m.open, m.close)
                           \o (IF split[1] = "" THEN <<>> ELSE <<split[1]>>)))
        \o ClassReplace((IF split[2] = "" THEN <<>> ELSE <<split[2]>>)
                            \o SubSeq(s, m.close + 1, Len(s)))

\* the replacement at the head of s, where classComponentRegex matches as m tells
ClassReplaceAt(s, m) ==
    IF m.ok THEN ClassCallback(s, m, BraceSplit(s[m.close]))
    ELSE <<Head(s)>> \o ClassReplace(Tail(s))

\* transformed.replace(classComponentRegex, callback)
ClassReplace(s) ==
    IF s = <<>> THEN <<>> ELSE ClassReplaceAt(s, ClassMatch(s, 1))

\* if (transformed.includes('useState') && !transformed.includes("import {
\* useState } from 'react'")) the import is added after the React import
AddUseStateImport(transformed) ==
    IF /\ \E i \in 1..Len(transformed) : transformed[i] \in UseStateTokens
       /\ ~Includes(transformed, ImportUseState)
    THEN InsertAfterImport(transformed, <<"\n", ImportUseState, ";">>)
    ELSE transformed

transformClassToFunctional(content, fileName) ==
    IF ClassTest(content)
    THEN Result(AddUseStateImport(ClassReplace(content)),
                <<fileName \o ": Converted class component to functional component">>,
                <<>>)
    ELSE Result(content, <<>>, <<>>)

(***************************************************************************)
(* transformFile: the six rules in order, each on the output of the one    *)
(* before it.                                                              *)
(***************************************************************************)
\* a rule applied after the results so far
Then(r, next) ==
    Result(next.content, r.fixes \o next.fixes, r.issues \o next.issues)

\* step n of transformFile, after the steps before it gave r
StageAfter(n, r, fileName) ==
    Then(r, CASE n = 2 -> transformLifecycleMethods(r.content, fileName)
              [] n = 3 -> transformEventHandlers(r.content, fileName)
              [] n = 4 -> transformPropTypes(r.content, fileName)
              [] n = 5 -> transformReactFC(r.content, fileName)
              [] n = 6 -> transformClassToFunctional(r.content, fileName))

\* transformedContent, and what has been logged, after each of the six steps
RECURSIVE Stage(_, _, _, _)
Stage(n, content, fileName, tv) ==
    IF n = 1
    THEN IF StrGE(tv, "18") THEN transformReactDOMRender(content, fileName)
         ELSE Result(content, <<>>, <<>>)
    ELSE StageAfter(n, Stage(n - 1, content, fileName, tv), fileName)

PipelineStages(content, fileName, tv) ==
    [n \in 1..6 |-> Stage(n, content, fileName, tv)]

Pipeline(content, fileName, tv) == Stage(6, content, fileName, tv)

(***************************************************************************)
(* The contents the pipeline is applied to: every concatenation of at most *)
(* MaxSegments pieces of source text, each piece one of the shapes the     *)
(* rules look for (or leave alone).                                        *)
(***************************************************************************)
Segments == <<
    \* 1: import React line
    <<"import React from 'react'", ";", "\n">>,
    \* 2: import ReactDOM line
    <<"import ReactDOM from 'react-dom'", ";", "\n">>,
    \* 3: import { render } line
    <<"import { render } from 'react-dom'", ";", "\n">>,
    \* 4: import ReactDOM, double quotes
    <<"import ReactDOM from \"react-dom\"", ";", "\n">>,
    \* 5: import PropTypes line
    <<"import PropTypes from 'prop-types'", ";", "\n">>,
    \* 6: render call, container with a call in it (scenario A)
    <<"ReactDOM.render(", "<App/>", ",", " ", "document.getElementById(", "'root'", ")", ")", ";", "\n">>,
    \* 7: render call, plain container
    <<"ReactDOM.render(", "<App />", ",", " ", "rootEl", ")", ";", "\n">>,
    \* 8: render call, element with an open and a closing tag
    <<"ReactDOM.render(", "\n", "<div>", "<App/>", "</div>", ",", "rootEl", ")", ";", "\n">>,
    \* 9: componentWillMount (scenario B)
    <<"componentWillMount", "(", ")", " ", "{", " ", "init", "(", ")", ";", " ", "}", "\n">>,
    \* 10: componentWillReceiveProps with a parameter
    <<"componentWillReceiveProps", "(", "nextProps", ")", " ", "{", "}", "\n">>,
    \* 11: componentWillReceiveProps without parameters
    <<"componentWillReceiveProps", "(", ")", " ", "{", "}", "\n">>,
    \* 12: componentWillUpdate
    <<"componentWillUpdate", "(", ")", " ", "{", "}", "\n">>,
    \* 13: SyntheticEvent
    <<"SyntheticEvent", ";", "\n">>,
    \* 14: React.PropTypes
    <<"React.PropTypes", ".string", ";", "\n">>,
    \* 15: React.FC
    <<"React.FC", ";", "\n">>,
    \* 16: React.FunctionComponent
    <<"React.FunctionComponent", ";", "\n">>,
    \* 17: class with one render method
    <<"class", " ", "App", " ", "extends", " ", "React.Component", " ", "{", "\n", "render", "(", ")", " ", "{", " ", "return", " ", "<div/>", ";", " ", "}", "\n", "}", "\n">>,
    \* 18: class that uses props and setState
    <<"class", " ", "Panel", " ", "extends", " ", "React.Component", " ", "{", " ", "render", "(", ")", " ", "{", " ", "this.setState(", "x", ")", ";", " ", "return", " ", "this.props.", "title", ";", " ", "}", " ", "}", "\n">>,
    \* 19: class with a state initializer
    <<"class", " ", "Panel", " ", "extends", " ", "React.Component", " ", "{", " ", "this.state", " ", "=", " ", "{", "n:0", "}", ";", " ", "}", "\n">>,
    \* 20: plain code
    <<"const", " ", "x", " ", "=", " ", "1", ";", "\n">>
>>

MaxSegments == 2

RECURSIVE ContentsOf(_)
\* the concatenations of at most n segments
ContentsOf(n) ==
    IF n = 0 THEN {<<>>}
    ELSE LET prev == ContentsOf(n - 1)
         IN  prev \cup {c \o Segments[i] : c \in prev, i \in 1..Len(Segments)}

Contents == ContentsOf(MaxSegments)

(***************************************************************************)
(* updateDependencies: the manifest it computes.                           *)
(***************************************************************************)
RECURSIVE ApplyPackagesDirectOnly(_, _, _)
\* a loop that looks at the dependencies section alone
ApplyPackagesDirectOnly(m, pkgs, i) ==
    IF i > Len(pkgs) THEN m
    ELSE IF Truthy(Get(m.deps, pkgs[i][1]))
         THEN ApplyPackagesDirectOnly(
                  [deps |-> Put(m.deps, pkgs[i][1], pkgs[i][2]), dev |-> m.dev],
                  pkgs, i + 1)
         ELSE ApplyPackagesDirectOnly(m, pkgs, i + 1)

RECURSIVE ApplyPackages(_, _, _)
\* for (const [pkg, version] of Object.entries(reactPackages)), from entry i
ApplyPackages(m, pkgs, i) ==
    IF i > Len(pkgs) THEN m
    ELSE LET pkg     == pkgs[i][1]
             version == pkgs[i][2]
         IN  IF Truthy(Get(m.deps, pkg)) \/ Truthy(Get(m.dev, pkg))
             THEN ApplyPackages(
                      [deps |-> IF Truthy(Get(m.deps, pkg))
                                THEN Put(m.deps, pkg, version) ELSE m.deps,
                       dev  |-> IF Truthy(Get(m.dev, pkg))
                                THEN Put(m.dev, pkg, version) ELSE m.dev],
                      pkgs, i + 1)
             ELSE ApplyPackages(m, pkgs, i + 1)

\* an update that gives the target range to every entry of the section
UpdateReactAndTheRest(deps, tv) ==
    IF Truthy(Get(deps, "react"))
    THEN [deps EXCEPT !.ent = [k \in DOMAIN deps.ent |-> "^" \o tv]]
    ELSE deps

\* packageJson.dependencies.react = `^${this.targetVersion}`, if it is there
UpdateReact(deps, tv) ==
    IF Truthy(Get(deps, "react")) THEN Put(deps, "react", "^" \o tv) ELSE deps

\* an assignment of react-dom that does not test for the entry
UpdateReactDomUnguarded(deps, tv) == Put(deps, "react-dom", "^" \o tv)

\* the same for react-dom
UpdateReactDom(deps, tv) ==
    IF Truthy(Get(deps, "react-dom")) THEN Put(deps, "react-dom", "^" \o tv) ELSE deps

\* packageJson after the updates of lines 1475-1498
UpdateManifest(m, tv) ==
    ApplyPackages([deps |-> UpdateReactDom(UpdateReact(m.deps, tv), tv), dev |-> m.dev],
                  getReactRelatedPackages(tv), 1)

(***************************************************************************)
(* isVersionCompatible and analyzePeerDependencies. Version ranges are     *)
(* parsed character by character; VersionChars spells the ranges used.     *)
(***************************************************************************)
VersionChars(v) ==
    CASE   v = "^16" -> <<"^", "1", "6">>
      [] v = "^17" -> <<"^", "1", "7">>
      [] v = "^18" -> <<"^", "1", "8">>
      [] v = "^19" -> <<"^", "1", "9">>
      [] v = "^20" -> <<"^", "2", "0">>
      [] v = "^16.8.0" -> <<"^", "1", "6", ".", "8", ".", "0">>
      [] v = "^17.0.0" -> <<"^", "1", "7", ".", "0", ".", "0">>
      [] v = "^18.2.0" -> <<"^", "1", "8", ".", "2", ".", "0">>
      [] v = ">=16.8.0" -> <<">", "=", "1", "6", ".", "8", ".", "0">>
      [] v = "*" -> <<"*">>
      [] v = "~18.0.0" -> <<"~", "1", "8", ".", "0", ".", "0">>
      [] v = "18" -> <<"1", "8">>
      [] v = "" -> <<>>
      [] v = "17.x || 18.x" -> <<"1", "7", ".", "x", " ", "|", "|", " ", "1", "8", ".", "x">>

DigitChars == <<"0", "1", "2", "3", "4", "5", "6", "7", "8", "9">>

IsDigit(ch) == \E d \in 1..10 : DigitChars[d] = ch

DigitValue(ch) == (CHOOSE d \in 1..10 : DigitChars[d] = ch) - 1

\* version.replace(/[\^~]/, ''): the first ^ or ~ is removed
StripRangeChar(cs) ==
    LET i == FirstIdx({j \in 1..Len(cs) : cs[j] \in {"^", "~"}})
    IN  IF i = 0 THEN cs ELSE SubSeq(cs, 1, i - 1) \o SubSeq(cs, i + 1, Len(cs))

\* v.split('.')[0] || '0'
FirstPart(cs) ==
    LET i    == FirstIdx({j \in 1..Len(cs) : cs[j] = "."})
        part == IF i = 0 THEN cs ELSE SubSeq(cs, 1, i - 1)
    IN  IF part = <<>> THEN <<"0">> ELSE part

RECURSIVE DigitsValue(_, _)
\* the value of the leading digits of cs, after the value acc
DigitsValue(cs, acc) ==
    IF cs = <<>> \/ ~IsDigit(Head(cs)) THEN acc
    ELSE DigitsValue(Tail(cs), acc * 10 + DigitValue(Head(cs)))

\* parseInt of a text with no leading white space or sign: NaN unless it
\* starts with a digit
parseInt(cs) ==
    IF cs = <<>> \/ ~IsDigit(Head(cs)) THEN [nan |-> TRUE, val |-> 0]
    ELSE [nan |-> FALSE, val |-> DigitsValue(cs, 0)]

\* major1 === major2 (NaN equals nothing, itself included)
StrictEqual(a, b) == ~a.nan /\ ~b.nan /\ a.val = b.val

isVersionCompatible(version1, version2) ==
    StrictEqual(parseInt(FirstPart(StripRangeChar(VersionChars(version1)))),
                parseInt(FirstPart(StripRangeChar(VersionChars(version2)))))

\* the package names of the model that do not hold the text "react"
NoReactInName == {"@reduxjs/toolkit", "formik", "styled-components", "@emotion/styled",
                  "framer-motion", "next", "gatsby", "@loadable/component", "lodash"}

\* a test that takes every package whose name holds the text "react"
IsReactRelatedAny(pkg) == pkg \notin NoReactInName

\* pkg.includes('react') && pkg !== 'react' && pkg !== 'react-dom'
IsReactRelated(pkg) == pkg \notin NoReactInName /\ pkg # "react" /\ pkg # "react-dom"

\* the order in which the keys of an object are enumerated: the model lists
\* the keys of a manifest in the order of this sequence
KeyOrder == <<"react", "react-dom", "lodash", "preact">> \o
            [i \in 1..Len(PackageTable) |-> PackageTable[i][1]]

RECURSIVE Conflicts(_, _, _, _)
\* the conflicts array of analyzePeerDependencies, from key i of KeyOrder on;
\* peers maps an installed package to the react range it declares as a peer
Conflicts(allDeps, peers, tv, i) ==
    IF i > Len(KeyOrder) THEN <<>>
    ELSE LET pkg == KeyOrder[i]
             hit == /\ pkg \in allDeps
                    /\ IsReactRelated(pkg)
                    /\ pkg \in DOMAIN peers
                    /\ Truthy(peers[pkg])
                    /\ ~isVersionCompatible("^" \o tv, peers[pkg])
         IN  (IF hit
              THEN <<"  - " \o pkg \o " requires React " \o peers[pkg]
                        \o " but we're upgrading to ^" \o tv>>
              ELSE <<>>) \o Conflicts(allDeps, peers, tv, i + 1)

\* what analyzePeerDependencies appends to issues
analyzePeerDependencies(m, peers, tv) ==
    LET conflicts == Conflicts(Keys(m.deps) \cup Keys(m.dev), peers, tv, 1)
    IN  IF Len(conflicts) > 0
        THEN <<"Peer dependency conflicts detected:">> \o conflicts
        ELSE <<>>

(***************************************************************************)
(* The file system. A project tree is what the tool reads and writes in a  *)
(* project root: package.json, the files of src, the configuration files,  *)
(* and the react range each installed package of node_modules declares as  *)
(* a peer. A JSON file is held as its data and its layout: "asWritten" for *)
(* the layout of its author, "stringified" for JSON.stringify(data, null,  *)
(* 2), the layout of every file the tool writes.                           *)
(***************************************************************************)
\* process.cwd()
Cwd == "/work"

\* the directories a project path can name: the working directory, and a
\* second directory, which holds no project unless said otherwise
Roots == {"/work", "/empty"}

\* the projectPath argument of migrate: a directory, the empty string, or
\* not given
ProjectPaths == Roots \cup {"", Undefined}

\* path.join(root, ...): the directory that the file operations reach from
\* this root; the empty path is the working directory
Dir(root) == IF root = "" THEN Cwd ELSE root

Section(ent) == [has |-> TRUE, ent |-> ent]

NoManifest == [deps |-> AbsentSection, dev |-> AbsentSection]

NoPackageJson ==
    [exists |-> FALSE, parses |-> FALSE, json |-> NoManifest, layout |-> "asWritten"]

PackageJson(m) ==
    [exists |-> TRUE, parses |-> TRUE, json |-> m, layout |-> "asWritten"]

NoSrc == [exists |-> FALSE, files |-> <<>>]

NoTsConfig == [exists |-> FALSE, parses |-> FALSE, jsx |-> Undefined, layout |-> "asWritten"]

\* jest.config.js and .eslintrc.js. form is how the text is written: "json",
\* "exports" (module.exports = {...}), "exportsSemi" (module.exports = {...};)
\* or "invalid"; the other fields are the settings the tool looks at
NoJestConfig ==
    [exists |-> FALSE, form |-> "invalid", setupFilesAfterEnv |-> FALSE,
     testEnvironment |-> FALSE, tsJest |-> FALSE]

NoEslintConfig ==
    [exists |-> FALSE, form |-> "invalid", pluginReact |-> FALSE,
     version |-> Undefined, rulesOff |-> FALSE]

EmptyTree ==
    [pkg |-> NoPackageJson, src |-> NoSrc, tsconfig |-> NoTsConfig,
     jest |-> NoJestConfig, eslint |-> NoEslintConfig,
     babel |-> FALSE, webpack |-> FALSE, peers |-> NoEntries]

\* the manifests of the projects of Spec: scenario C of the spec; react as a
\* development dependency only; no react at all
ProjectManifests ==
    { [deps |-> Section("react" :> "^16.0.0" @@ "react-dom" :> "^16.0.0"
                        @@ "react-router-dom" :> "^5.0.0"),
       dev  |-> AbsentSection],
      [deps |-> Section("lodash" :> "^4.17.0"),
       dev  |-> Section("react" :> "^16.0.0" @@ "@testing-library/react" :> "^9.0.0")],
      [deps |-> Section("lodash" :> "^4.17.0"), dev |-> AbsentSection] }

ProjectPackageJsons == {NoPackageJson} \cup {PackageJson(m) : m \in ProjectManifests}

\* the peer ranges declared in node_modules
ProjectPeers ==
    "react-router-dom" :> ">=16.8.0" @@ "@testing-library/react" :> "^18.2.0"

File(name, content) == [name |-> name, content |-> content]

\* the src directories of the projects of Spec: none; one file without any
\* pattern; scenario A in index.js and a class component in App.jsx
ProjectSources ==
    { NoSrc,
      [exists |-> TRUE,
       files |-> <<File("index.js", Segments[1] \o Segments[20])>>],
      [exists |-> TRUE,
       files |-> <<File("index.js", Segments[2] \o Segments[6]),
                   File("App.jsx", Segments[1] \o Segments[10] \o Segments[17])>>] }

\* the configuration files of the projects of Spec: none; all of them, in a
\* form the tool can parse; the three the tool rewrites, in a form it cannot
ProjectConfigs ==
    { [tsconfig |-> NoTsConfig, jest |-> NoJestConfig, eslint |-> NoEslintConfig,
       babel |-> FALSE, webpack |-> FALSE],
      [tsconfig |-> [exists |-> TRUE, parses |-> TRUE, jsx |-> "react",
                     layout |-> "asWritten"],
       jest |-> [exists |-> TRUE, form |-> "exports", setupFilesAfterEnv |-> FALSE,
                 testEnvironment |-> FALSE, tsJest |-> FALSE],
       eslint |-> [exists |-> TRUE, form |-> "json", pluginReact |-> FALSE,
                   version |-> Undefined, rulesOff |-> FALSE],
       babel |-> TRUE, webpack |-> TRUE],
      [tsconfig |-> [exists |-> TRUE, parses |-> FALSE, jsx |-> Undefined,
                     layout |-> "asWritten"],
       jest |-> [exists |-> TRUE, form |-> "exportsSemi", setupFilesAfterEnv |-> TRUE,
                 testEnvironment |-> TRUE, tsJest |-> FALSE],
       eslint |-> [exists |-> TRUE, form |-> "invalid", pluginReact |-> FALSE,
                   version |-> Undefined, rulesOff |-> FALSE],
       babel |-> FALSE, webpack |-> FALSE] }

Tree(pkg, src, cfg) ==
    [pkg |-> pkg, src |-> src, tsconfig |-> cfg.tsconfig, jest |-> cfg.jest,
     eslint |-> cfg.eslint, babel |-> cfg.babel, webpack |-> cfg.webpack,
     peers |-> ProjectPeers]

\* the project trees of Spec
Projects ==
    {Tree(pkg, src, cfg) : pkg \in ProjectPackageJsons, src \in ProjectSources,
                           cfg \in ProjectConfigs}

(***************************************************************************)
(* MigrationOptions. A flag that is not given is undefined, which the code *)
(* only tests for truthiness: the model holds it as FALSE.                 *)
(***************************************************************************)
NoOptions ==
    [dryRun |-> FALSE, skipDeps |-> FALSE, depsOnly |-> FALSE,
     createBackup |-> FALSE, files |-> Undefined, components |-> Undefined]

\* --files and --components are given one name, or not given; not both
FilterChoices == {<<Undefined, Undefined>>, <<"App", Undefined>>, <<Undefined, "App">>}

OptionSets ==
    {[dryRun |-> d, skipDeps |-> s, depsOnly |-> o, createBackup |-> b,
      files |-> f[1], components |-> f[2]] :
        d \in BOOLEAN, s \in BOOLEAN, o \in BOOLEAN, b \in BOOLEAN, f \in FilterChoices}

\* const options: MigrationOptions = { dryRun: true }
CheckOptions == [NoOptions EXCEPT !.dryRun = TRUE]

NoBackupInfo == [id |-> Undefined, path |-> Undefined, description |-> Undefined]

(***************************************************************************)
(* The configuration pass: what each step does to its file and what it     *)
(* logs. A step returns the file as it is on disk afterwards.              *)
(***************************************************************************)
\* the message of the SyntaxError of JSON.parse or eval
ParseError == "Unexpected token"

ConfigResult(file, f, i, wrote) ==
    [file |-> file, fixes |-> f, issues |-> i, wrote |-> wrote]

\* a tsconfig step that replaces a file it cannot parse by a fresh one
updateTsConfigOverwriting(tsconfig, tv, dryRun) ==
    ConfigResult(IF dryRun THEN tsconfig
                 ELSE [exists |-> TRUE, parses |-> TRUE, jsx |-> "react-jsx",
                       layout |-> "stringified"],
                 IF StrGE(tv, "17")
                 THEN <<"Updated tsconfig.json with new JSX transform">> ELSE <<>>,
                 IF tsconfig.parses THEN <<>>
                 ELSE <<"Failed to update tsconfig.json: " \o ParseError>>,
                 ~dryRun)

updateTsConfig(tsconfig, tv, dryRun) ==
    IF ~tsconfig.parses
    THEN ConfigResult(tsconfig, <<>>,
                      <<"Failed to update tsconfig.json: " \o ParseError>>, FALSE)
    ELSE LET jsx == IF StrGE(tv, "17") THEN "react-jsx" ELSE tsconfig.jsx
         IN  ConfigResult(IF dryRun THEN tsconfig
                          ELSE [tsconfig EXCEPT !.jsx = jsx, !.layout = "stringified"],
                          IF StrGE(tv, "17")
                          THEN <<"Updated tsconfig.json with new JSX transform">>
                          ELSE <<>>,
                          <<>>, ~dryRun)

\* JSON.parse(text), and when that throws eval(`(${text.replace('module.exports
\* = ', '')})`): a trailing semicolon makes the text in parentheses a syntax error
Evaluates(form) == form \in {"json", "exports"}

updateJestConfig(jest, tv, dryRun) ==
    IF ~Evaluates(jest.form)
    THEN ConfigResult(jest, <<>>,
                      <<"Failed to update Jest configuration: " \o ParseError>>, FALSE)
    ELSE LET updated == StrGE(tv, "18")
         IN  IF updated /\ ~dryRun
             THEN ConfigResult([jest EXCEPT !.setupFilesAfterEnv = TRUE,
                                            !.testEnvironment = TRUE,
                                            !.tsJest = TRUE,
                                            !.form = "exportsSemi"],
                               <<"Updated Jest configuration for React compatibility">>,
                               <<>>, TRUE)
             ELSE IF updated
             THEN ConfigResult(jest, <<"Would update Jest configuration (dry run)">>,
                               <<>>, FALSE)
             ELSE ConfigResult(jest, <<>>, <<>>, FALSE)

\* an ESLint step that inspects the file and only advises
updateEslintConfigAdvisory(eslint, tv, dryRun) ==
    IF ~Evaluates(eslint.form)
    THEN ConfigResult(eslint, <<>>,
                      <<"Failed to update ESLint configuration: " \o ParseError>>, FALSE)
    ELSE ConfigResult(eslint, <<>>, <<"Add React plugin to ESLint configuration">>, FALSE)

updateEslintConfig(eslint, tv, dryRun) ==
    IF ~Evaluates(eslint.form)
    THEN ConfigResult(eslint, <<>>,
                      <<"Failed to update ESLint configuration: " \o ParseError>>, FALSE)
    ELSE IF ~dryRun
    THEN ConfigResult([eslint EXCEPT !.pluginReact = TRUE,
                                     !.version = tv,
                                     !.rulesOff = (StrGE(tv, "17") \/ @),
                                     !.form = "exportsSemi"],
                      <<"Updated ESLint configuration for React compatibility">>,
                      <<>>, TRUE)
    ELSE ConfigResult(eslint, <<"Would update ESLint configuration (dry run)">>,
                      <<>>, FALSE)

\* the issues of checkBabelConfig
checkBabelConfig(babel, tv) ==
    IF babel /\ StrGE(tv, "17")
    THEN <<"Update Babel React preset to use automatic JSX runtime: {\"runtime\": \"automatic\"}">>
    ELSE <<>>

\* the issues of checkWebpackConfig
checkWebpackConfig(webpack, tv) ==
    IF webpack
    THEN <<"Review webpack configuration for React compatibility">> \o
         (IF StrGE(tv, "18")
          THEN <<"Ensure webpack supports React 18 features like Suspense and concurrent rendering">>
          ELSE <<>>)
    ELSE <<>>

\* a step that is skipped because its file is not there
Skipped(file) == ConfigResult(file, <<>>, <<>>, FALSE)

(***************************************************************************)
(* transformCode: the --files and --components filters.                    *)
(***************************************************************************)
\* a file of src, by its root and its name (all files lie directly in src)
FilePath(root, name) == [root |-> root, name |-> name]

\* fileName.includes(target) || filePath.includes(target), for the file names
\* and roots of the model
PathIncludes(filePath, target) ==
    <<filePath.name, target>> \in {<<"App.jsx", "App">>}

\* content.includes(`class ${c}`) || content.includes(`function ${c}`) ||
\* content.includes(`const ${c}`)
HasComponent(content, component) ==
    \E i \in 1..Len(content) :
        /\ content[i] \in {"class", "function", "const"}
        /\ i + 2 <= Len(content)
        /\ content[i + 1] = " "
        /\ content[i + 2] = component

\* if (transformedContent !== content && !dryRun) {write; 'Transformed'}
\* else if (transformedContent !== content) {'Would transform'}
\* a write-back that does not look at dryRun
WriteBackIgnoringDryRun(content, transformedContent, dryRun, fileName) ==
    IF ~SameText(transformedContent, content)
    THEN [write |-> TRUE, fixes |-> <<"Transformed " \o fileName>>]
    ELSE [write |-> FALSE, fixes |-> <<>>]

\* a write-back that reports a file whose content did not change
WriteBackReportingUnchanged(content, transformedContent, dryRun, fileName) ==
    IF ~dryRun
    THEN [write |-> ~SameText(transformedContent, content),
          fixes |-> <<"Transformed " \o fileName>>]
    ELSE [write |-> FALSE, fixes |-> <<"Would transform " \o fileName \o " (dry run)">>]

WriteBack(content, transformedContent, dryRun, fileName) ==
    IF ~SameText(transformedContent, content) /\ ~dryRun
    THEN [write |-> TRUE, fixes |-> <<"Transformed " \o fileName>>]
    ELSE IF ~SameText(transformedContent, content)
    THEN [write |-> FALSE, fixes |-> <<"Would transform " \o fileName \o " (dry run)">>]
    ELSE [write |-> FALSE, fixes |-> <<>>]

(***************************************************************************)
(* State.                                                                  *)
(***************************************************************************)
VARIABLES
    fs,             \* the project tree of each root
    backups,        \* the backup directories, in the order they were made
    clock,          \* the time, as it shows in a backup id
    targetVersion,  \* fields of ReactMigrationTool
    projectRoot,
    issues,
    fixes,
    reactFiles,
    options,
    backupInfo,
    pc,             \* where the running migrate() is
    queue,          \* transformCode: the files still to transform
    events,         \* what the tool did to the outside, in order
    calls,          \* the calls made so far
    entry,          \* how the running call was entered
    packageJson,    \* updateDependencies: its manifest, as read and as updated
    last,           \* transformFile: the locals of its latest call
    start           \* the outside and the logs when the running call began

vars == <<fs, backups, clock, targetVersion, projectRoot, issues, fixes, reactFiles,
          options, backupInfo, pc, queue, events, calls, entry, packageJson, last,
          start>>

\* bounds of the model
MaxCalls == 1

MaxDirectCalls == 2

MaxDeps == 3

Event(op, arg) == [op |-> op, arg |-> arg]

NoUpdate == [ran |-> FALSE, before |-> NoManifest, after |-> NoManifest]

NoLast ==
    [valid |-> FALSE, fileName |-> "", content |-> <<>>, stages |-> <<>>,
     transformedContent |-> <<>>, fixesBefore |-> 0, issuesBefore |-> 0,
     eventsBefore |-> 0]

Started == [fs |-> fs, backups |-> backups, fixes |-> fixes, issues |-> issues,
            events |-> Len(events), args |-> <<>>, previous |-> <<>>]

\* an instance over the file system f whose targetVersion and options fields
\* hold tv and o, and whose other fields are as the initialisers leave them
Instance(f, tv, o) ==
    /\ fs = f
    /\ backups = <<>>
    /\ clock = 1
    /\ targetVersion = tv
    /\ projectRoot = Cwd
    /\ issues = <<>>
    /\ fixes = <<>>
    /\ reactFiles = <<>>
    /\ options = o
    /\ backupInfo = NoBackupInfo
    /\ pc = "idle"
    /\ queue = <<>>
    /\ events = <<>>
    /\ calls = 0
    /\ entry = "none"
    /\ packageJson = NoUpdate
    /\ last = NoLast
    /\ start = [fs |-> f, backups |-> <<>>, fixes |-> <<>>, issues |-> <<>>,
                events |-> 0, args |-> <<>>, previous |-> <<>>]

\* new ReactMigrationTool(): the field initialisers
Constructed(f) == Instance(f, "18", NoOptions)

\* the file system with the given project in the working directory
ProjectAt(project) == [r \in Roots |-> IF r = Cwd THEN project ELSE EmptyTree]

Init == \E project \in Projects : Constructed(ProjectAt(project))

(***************************************************************************)
(* migrate(): one action per phase.                                        *)
(***************************************************************************)
\* projectPath || process.cwd()
ResolveRootIfTruthy(projectPath) == IF Truthy(projectPath) THEN projectPath ELSE Cwd

\* projectPath !== undefined ? projectPath : process.cwd()
ResolveRoot(projectPath) == IF projectPath # Undefined THEN projectPath ELSE Cwd

\* a catch that reports the error and lets the process live
ThrownWithoutExit(message) == <<Event("error", message)>>

\* the catch of migrate: console.error(message); process.exit(1)
Thrown(message) == <<Event("error", message), Event("exit", "1")>>

\* the phase after analyzeProject, and the phase after updateDependencies
\* a migrate that goes on to transformCode whatever the options say
AfterDepsAlwaysTransform == "transform"

AfterDeps == IF ~options.depsOnly THEN "transform" ELSE "report"

\* a migrate that goes on to updateDependencies whatever the options say
AfterAnalyzeAlwaysDeps == "deps"

AfterAnalyze == IF ~options.skipDeps THEN "deps" ELSE AfterDeps

\* a migrate that starts every call with empty logs
migrateClearingLogs(tv, projectPath, o, how) ==
    /\ targetVersion' = tv
    /\ projectRoot' = ResolveRoot(projectPath)
    /\ options' = o
    /\ entry' = how
    /\ calls' = calls + 1
    /\ start' = [Started EXCEPT !.args = <<tv, projectPath, o>>, !.previous = start.args]
    /\ events' = Append(events, Event("migrate", tv))
    /\ pc' = IF o.createBackup /\ ~o.dryRun THEN "backup" ELSE "analyze"
    /\ packageJson' = NoUpdate
    /\ last' = NoLast
    /\ queue' = <<>>
    /\ issues' = <<>>
    /\ fixes' = <<>>
    /\ UNCHANGED <<fs, backups, clock, reactFiles, backupInfo>>

\* the assignments of migrate, up to the try block
migrate(tv, projectPath, o, how) ==
    /\ targetVersion' = tv
    /\ projectRoot' = ResolveRoot(projectPath)
    /\ options' = o
    /\ entry' = how
    /\ calls' = calls + 1
    /\ start' = [Started EXCEPT !.args = <<tv, projectPath, o>>, !.previous = start.args]
    /\ events' = Append(events, Event("migrate", tv))
    /\ pc' = IF o.createBackup /\ ~o.dryRun THEN "backup" ELSE "analyze"
    /\ packageJson' = NoUpdate
    /\ last' = NoLast
    /\ queue' = <<>>
    /\ UNCHANGED <<fs, backups, clock, issues, fixes, reactFiles, backupInfo>>

\* a caller that holds an instance calls migrate on it
MigrateDirect ==
    /\ pc \in {"idle", "done"}
    /\ calls < MaxCalls
    /\ \E tv \in AllVersions, p \in ProjectPaths, o \in OptionSets :
           migrate(tv, p, o, "migrate")

\* the default command: a fresh process and instance
CliDefault ==
    /\ pc = "idle"
    /\ calls = 0
    /\ \E tv \in AllVersions, p \in Roots, o \in OptionSets :
           IF tv \notin SupportedVersions
           THEN /\ events' = events \o Thrown("Unsupported target version. Use 17, 18, or 19")
                /\ pc' = "exited"
                /\ entry' = "default"
                /\ calls' = calls + 1
                /\ start' = Started
                /\ UNCHANGED <<fs, backups, clock, targetVersion, projectRoot, issues,
                               fixes, reactFiles, options, backupInfo, queue,
                               packageJson, last>>
           ELSE migrate(tv, p, o, "default")

\* the check command
CliCheck ==
    /\ pc = "idle"
    /\ calls = 0
    /\ \E tv \in AllVersions, p \in Roots : migrate(tv, p, CheckOptions, "check")

\* entry.name.startsWith('backup-'), for the file names of the model
StartsWithBackup(name) == name \in {"backup-utils.js"}

\* what copyDirectory copies: every entry, at every depth, but those named
\* node_modules and those whose name starts with backup-
Snapshot(tree) ==
    [tree EXCEPT !.peers = NoEntries,
                 !.src.files = SelectSeq(@, LAMBDA f : ~StartsWithBackup(f.name))]

BackupOutcomes == {"ok", "mkdirFailed", "copyFailed"}

CreateBackup ==
    /\ pc = "backup"
    /\ \E outcome \in BackupOutcomes :
         LET backupId == "backup-" \o ToString(clock)
         IN  /\ backups' =
                   IF outcome = "mkdirFailed" THEN backups
                   ELSE Append(backups,
                               [id |-> backupId,
                                tree |-> IF outcome = "ok" THEN Snapshot(fs[Dir(projectRoot)])
                                         ELSE EmptyTree,
                                complete |-> outcome = "ok",
                                root |-> Dir(projectRoot),
                                origin |-> fs[Dir(projectRoot)]])
             /\ backupInfo' =
                   IF outcome = "ok"
                   THEN [id |-> backupId, path |-> "/" \o backupId,
                         description |-> "React " \o targetVersion \o " migration backup"]
                   ELSE backupInfo
             /\ fixes' = IF outcome = "ok"
                         THEN Append(fixes, "Created backup: " \o backupId) ELSE fixes
             /\ issues' = IF outcome = "ok" THEN issues
                          ELSE Append(issues, "Failed to create backup: " \o outcome)
             /\ events' = Append(events, Event("backup", outcome))
    /\ clock' = clock + 1
    /\ pc' = "analyze"
    /\ UNCHANGED <<fs, targetVersion, projectRoot, reactFiles, options, queue, calls,
                   entry, packageJson, last, start>>

\* findReactFiles: the files of src, in the order readdir lists them
findReactFiles(root) ==
    [i \in 1..Len(fs[Dir(root)].src.files) |-> FilePath(root, fs[Dir(root)].src.files[i].name)]

AnalyzeProject ==
    /\ pc = "analyze"
    /\ LET tree == fs[Dir(projectRoot)]
           react == IF Truthy(Get(tree.pkg.json.deps, "react"))
                    THEN Get(tree.pkg.json.deps, "react")
                    ELSE Get(tree.pkg.json.dev, "react")
           error == IF ~tree.pkg.exists
                    THEN "package.json not found. Are you in a React project?"
                    ELSE IF ~tree.pkg.parses THEN ParseError
                    ELSE IF ~Truthy(react) THEN "React not found in dependencies"
                    ELSE ""
           read  == IF tree.pkg.exists THEN <<Event("read", "package.json")>> ELSE <<>>
       IN  IF error # ""
           THEN /\ events' = events \o read \o Thrown(error)
                /\ pc' = "exited"
                /\ UNCHANGED <<issues, reactFiles>>
           ELSE /\ events' = events \o read
                /\ pc' = AfterAnalyze
                /\ IF ~tree.src.exists
                   THEN /\ issues' = Append(issues, "src directory not found")
                        /\ UNCHANGED reactFiles
                   ELSE /\ reactFiles' = findReactFiles(projectRoot)
                        /\ UNCHANGED issues
    /\ UNCHANGED <<fs, backups, clock, targetVersion, projectRoot, fixes, options,
                   backupInfo, queue, calls, entry, packageJson, last, start>>

\* the message of the error of a failed npm install
InstallError == "Command failed: npm install"

\* readFileSync and JSON.parse of package.json succeed
ManifestReadable(root) == fs[Dir(root)].pkg.exists /\ fs[Dir(root)].pkg.parses

\* the body of updateDependencies; installOk tells whether npm install succeeds
updateDependencies(installOk) ==
    LET tree  == fs[Dir(projectRoot)]
        read  == tree.pkg.json
        after == UpdateManifest(read, targetVersion)
        peer  == analyzePeerDependencies(read, tree.peers, targetVersion)
    IN  /\ packageJson' = [ran |-> TRUE, before |-> read, after |-> after]
        /\ IF ~options.dryRun
           THEN /\ fs' = [fs EXCEPT ![Dir(projectRoot)].pkg =
                             [exists |-> TRUE, parses |-> TRUE, json |-> after,
                              layout |-> "stringified"]]
                /\ fixes' = fixes \o <<"Updated package.json with new React versions">>
                              \o (IF installOk
                                  THEN <<"Installed updated dependencies">> ELSE <<>>)
                /\ issues' = issues \o peer
                               \o (IF installOk THEN <<>>
                                   ELSE <<"Failed to install dependencies: " \o InstallError>>)
                /\ events' = events \o <<Event("read", "package.json"),
                                         Event("write", "package.json"),
                                         Event("install", IF installOk THEN "ok" ELSE "failed")>>
           ELSE /\ fs' = fs
                /\ fixes' = Append(fixes,
                               "Would update package.json with new React versions (dry run)")
                /\ issues' = issues \o peer
                /\ events' = Append(events, Event("read", "package.json"))

\* the outcomes of the installer that the run can see
InstallOutcomes == IF options.dryRun THEN {TRUE} ELSE BOOLEAN

UpdateDependencies ==
    /\ pc = "deps"
    /\ IF ManifestReadable(projectRoot)
       THEN /\ \E installOk \in InstallOutcomes : updateDependencies(installOk)
            /\ pc' = AfterDeps
       ELSE /\ events' = events \o Thrown("ENOENT: no such file or directory")
            /\ pc' = "exited"
            /\ UNCHANGED <<fs, fixes, issues, packageJson>>
    /\ UNCHANGED <<backups, clock, targetVersion, projectRoot, reactFiles, options,
                   backupInfo, queue, calls, entry, last, start>>

\* the position of the file in the src directory of its root, 0 when it is
\* not there
FileIndex(filePath) ==
    LET src == fs[Dir(filePath.root)].src
    IN  IF ~src.exists THEN 0
        ELSE FirstIdx({i \in 1..Len(src.files) : src.files[i].name = filePath.name})

\* fs.readFileSync(filePath, 'utf8')
ReadFile(filePath) == fs[Dir(filePath.root)].src.files[FileIndex(filePath)].content

ReadEvents(files) ==
    [i \in 1..Len(files) |-> Event("read", "src/" \o files[i].name)]

TransformCode ==
    /\ pc = "transform"
    /\ LET byFiles ==
               IF Truthy(options.files)
               THEN SelectSeq(reactFiles, LAMBDA f : PathIncludes(f, options.files))
               ELSE reactFiles
           filesToTransform ==
               IF Truthy(options.components)
               THEN SelectSeq(byFiles,
                              LAMBDA f : HasComponent(ReadFile(f), options.components))
               ELSE byFiles
           unreadable ==
               Truthy(options.components)
                   /\ \E i \in 1..Len(byFiles) : FileIndex(byFiles[i]) = 0
       IN  IF unreadable
           THEN /\ events' = events \o Thrown("ENOENT: no such file or directory")
                /\ pc' = "exited"
                /\ UNCHANGED queue
           ELSE /\ queue' = filesToTransform
                /\ events' = events \o (IF Truthy(options.components)
                                        THEN ReadEvents(byFiles) ELSE <<>>)
                /\ pc' = IF filesToTransform = <<>> THEN "config" ELSE "files"
    /\ UNCHANGED <<fs, backups, clock, targetVersion, projectRoot, issues, fixes,
                   reactFiles, options, backupInfo, calls, entry, packageJson, last,
                   start>>

\* fs.writeFileSync(filePath, content)
WriteFile(filePath, content) ==
    [fs EXCEPT ![Dir(filePath.root)].src.files[FileIndex(filePath)].content = content]

\* the body of transformFile, for a file that can be read
transformFile(filePath) ==
    LET content  == ReadFile(filePath)
        fileName == filePath.name
        stages   == PipelineStages(content, fileName, targetVersion)
        result   == stages[6]
        back     == WriteBack(content, result.content, options.dryRun, fileName)
    IN  /\ fs' = IF back.write THEN WriteFile(filePath, result.content) ELSE fs
        /\ fixes' = fixes \o result.fixes \o back.fixes
        /\ issues' = issues \o result.issues
        /\ events' = events \o <<Event("read", "src/" \o fileName)>>
                       \o (IF back.write
                           THEN <<Event("write", "src/" \o fileName)>> ELSE <<>>)
        /\ last' = [valid |-> TRUE, fileName |-> fileName, content |-> content,
                    stages |-> stages, transformedContent |-> result.content,
                    fixesBefore |-> Len(fixes), issuesBefore |-> Len(issues),
                    eventsBefore |-> Len(events)]

\* one turn of the loop of transformCode
TransformNext ==
    /\ pc = "files"
    /\ queue # <<>>
    /\ IF FileIndex(Head(queue)) # 0
       THEN /\ transformFile(Head(queue))
            /\ queue' = Tail(queue)
            /\ pc' = IF Tail(queue) = <<>> THEN "config" ELSE "files"
       ELSE /\ events' = events \o Thrown("ENOENT: no such file or directory")
            /\ pc' = "exited"
            /\ UNCHANGED <<fs, fixes, issues, last, queue>>
    /\ UNCHANGED <<backups, clock, targetVersion, projectRoot, reactFiles, options,
                   backupInfo, calls, entry, packageJson, start>>

UpdateConfiguration ==
    /\ pc = "config"
    /\ LET tree   == fs[Dir(projectRoot)]
           ts     == IF tree.tsconfig.exists
                     THEN updateTsConfig(tree.tsconfig, targetVersion, options.dryRun)
                     ELSE Skipped(tree.tsconfig)
           jest   == IF tree.jest.exists
                     THEN updateJestConfig(tree.jest, targetVersion, options.dryRun)
                     ELSE Skipped(tree.jest)
           eslint == IF tree.eslint.exists
                     THEN updateEslintConfig(tree.eslint, targetVersion, options.dryRun)
                     ELSE Skipped(tree.eslint)
           io(file, name, r) ==
               (IF file.exists THEN <<Event("read", name)>> ELSE <<>>)
                   \o (IF r.wrote THEN <<Event("write", name)>> ELSE <<>>)
       IN  /\ fs' = [fs EXCEPT ![Dir(projectRoot)].tsconfig = ts.file,
                               ![Dir(projectRoot)].jest = jest.file,
                               ![Dir(projectRoot)].eslint = eslint.file]
           /\ fixes' = fixes \o ts.fixes \o jest.fixes \o eslint.fixes
           /\ issues' = issues \o ts.issues \o jest.issues \o eslint.issues
                          \o checkBabelConfig(tree.babel, targetVersion)
                          \o checkWebpackConfig(tree.webpack, targetVersion)
           /\ events' = events \o io(tree.tsconfig, "tsconfig.json", ts)
                          \o io(tree.jest, "jest.config.js", jest)
                          \o io(tree.eslint, ".eslintrc.js", eslint)
    /\ pc' = "report"
    /\ UNCHANGED <<backups, clock, targetVersion, projectRoot, reactFiles, options,
                   backupInfo, queue, calls, entry, packageJson, last, start>>

\* generateReport prints the two logs; migrate then reports success
GenerateReport ==
    /\ pc = "report"
    /\ events' = events \o <<Event("report", ""), Event("completed", "")>>
    /\ pc' = "done"
    /\ UNCHANGED <<fs, backups, clock, targetVersion, projectRoot, issues, fixes,
                   reactFiles, options, backupInfo, queue, calls, entry, packageJson,
                   last, start>>

Next ==
    \/ MigrateDirect
    \/ CliDefault
    \/ CliCheck
    \/ CreateBackup
    \/ AnalyzeProject
    \/ UpdateDependencies
    \/ TransformCode
    \/ TransformNext
    \/ UpdateConfiguration
    \/ GenerateReport

Spec == Init /\ [][Next]_vars

(***************************************************************************)
(* updateDependencies called on its own, on an instance whose fields the   *)
(* caller has set, over a wide range of manifests.                         *)
(***************************************************************************)
DepsPackages == {"react", "react-dom", "react-router-dom", "lodash"}

\* a section is absent, or lists at most MaxDeps of these packages
DepsSections ==
    {AbsentSection} \cup
    {Section([p \in S |-> "^16.0.0"]) :
        S \in {T \in SUBSET DepsPackages : Cardinality(T) <= MaxDeps}}

\* react with one package of the table, as a direct or a development dependency
TableManifests ==
    {[deps |-> Section("react" :> "^16.0.0" @@ pkg :> "^1.0.0"), dev |-> AbsentSection] :
        pkg \in TablePackages}
    \cup
    {[deps |-> Section("react" :> "^16.0.0"), dev |-> Section(pkg :> "^1.0.0")] :
        pkg \in TablePackages}

\* manifests in which a package has the empty range (any version, for npm)
EmptyRangeManifests ==
    {[deps |-> Section("react" :> "^16.0.0" @@ pkg :> ""), dev |-> Section(pkg :> "^1.0.0")] :
        pkg \in {"react-dom", "react-router-dom", "lodash"}}
    \cup
    {[deps |-> Section("react" :> ""), dev |-> Section("react" :> "^16.0.0")]}

\* manifests with several packages whose name holds the text "react", one of
\* them listed in both sections
PeerManifests ==
    {[deps |-> Section("react" :> "^16.0.0" @@ "react-dom" :> "^16.0.0"
                       @@ "react-router-dom" :> "^5.0.0" @@ "preact" :> "^10.0.0"),
      dev  |-> Section("@testing-library/react" :> "^9.0.0"
                       @@ "react-router-dom" :> "^5.0.0" @@ "lodash" :> "^4.17.0")]}

DepsManifests ==
    {[deps |-> d, dev |-> v] : d \in DepsSections, v \in DepsSections}
        \cup TableManifests \cup EmptyRangeManifests \cup PeerManifests

\* what node_modules can hold: the packages of ProjectPeers; nothing; every
\* package of the manifest, each with a peer range on react (react-dom
\* among them, and lodash, whose name does not hold the text "react")
PeerChoices ==
    {ProjectPeers,
     NoEntries,
     "react-dom" :> "^16.8.0" @@ "react-router-dom" :> "^17.0.0"
         @@ "@testing-library/react" :> "^18.2.0" @@ "preact" :> "*"
         @@ "lodash" :> "^16.8.0"}

InitDeps ==
    \E m \in DepsManifests, tv \in AllVersions, d \in BOOLEAN, peers \in PeerChoices :
        Instance(ProjectAt([EmptyTree EXCEPT !.pkg = PackageJson(m),
                                             !.peers = peers]),
                 tv, [NoOptions EXCEPT !.dryRun = d])

UpdateDependenciesCall ==
    /\ pc = "idle"
    /\ calls < MaxDirectCalls
    /\ ManifestReadable(projectRoot)
    /\ \E installOk \in InstallOutcomes : updateDependencies(installOk)
    /\ calls' = calls + 1
    /\ entry' = "updateDependencies"
    /\ start' = Started
    /\ UNCHANGED <<backups, clock, targetVersion, projectRoot, reactFiles, options,
                   backupInfo, pc, queue, last>>

NextDeps == UpdateDependenciesCall

SpecDeps == InitDeps /\ [][NextDeps]_vars

(***************************************************************************)
(* transformFile called on its own, pass after pass on the same file, over *)
(* every content of Contents.                                              *)
(***************************************************************************)
InitPipe ==
    \E content \in Contents, tv \in AllVersions, d \in BOOLEAN :
        Instance(ProjectAt([EmptyTree EXCEPT
                               !.src = [exists |-> TRUE,
                                        files |-> <<File("index.js", content)>>]]),
                 tv, [NoOptions EXCEPT !.dryRun = d])

TransformFileCall ==
    /\ pc = "idle"
    /\ calls < MaxDirectCalls
    /\ FileIndex(FilePath(projectRoot, "index.js")) # 0
    /\ transformFile(FilePath(projectRoot, "index.js"))
    /\ calls' = calls + 1
    /\ entry' = "transformFile"
    /\ start' = Started
    /\ UNCHANGED <<backups, clock, targetVersion, projectRoot, reactFiles, options,
                   backupInfo, pc, queue, packageJson>>

NextPipe == TransformFileCall

SpecPipe == InitPipe /\ [][NextPipe]_vars

(***************************************************************************)
(* isVersionCompatible called on its own, on every pair of the version     *)
(* ranges that VersionChars spells.                                        *)
(***************************************************************************)
VersionRanges ==
    {"^16", "^17", "^18", "^19", "^20", "^16.8.0", "^17.0.0", "^18.2.0", ">=16.8.0",
     "*", "~18.0.0", "18", "", "17.x || 18.x"}

\* the call and the value it returns
IsVersionCompatibleCall ==
    /\ pc = "idle"
    /\ calls < MaxDirectCalls
    /\ \E version1 \in VersionRanges, version2 \in VersionRanges :
           events' = Append(events,
                            Event("isVersionCompatible",
                                  [version1 |-> version1, version2 |-> version2,
                                   returns |-> isVersionCompatible(version1, version2)]))
    /\ calls' = calls + 1
    /\ entry' = "isVersionCompatible"
    /\ start' = Started
    /\ UNCHANGED <<fs, backups, clock, targetVersion, projectRoot, issues, fixes,
                   reactFiles, options, backupInfo, pc, queue, packageJson, last>>

SpecCompat == Constructed(ProjectAt(EmptyTree)) /\ [][IsVersionCompatibleCall]_vars

(***************************************************************************)
(* rollback(backupId), called by the holder of the instance once migrate() *)
(* has returned.                                                           *)
(***************************************************************************)
MaxRollbacks == 2

\* a rollback that takes the backup directory to be there
BackupAssumed(backupId) ==
    IF SelectSeq(backups, LAMBDA b : b.id = backupId) # <<>>
    THEN SelectSeq(backups, LAMBDA b : b.id = backupId)
    ELSE <<[id |-> backupId, tree |-> EmptyTree, complete |-> FALSE,
            root |-> Cwd, origin |-> EmptyTree]>>

\* the backup directory of this name, <<>> when fs.existsSync is false
BackupNamed(backupId) ==
    SelectSeq(backups, LAMBDA b : b.id = backupId)

RollbackOutcomes == {"ok", "failed"}

\* rollback: the project directory is emptied but for node_modules and the
\* backup is copied into it; an error on the way leaves it as far as the
\* removal or the copy came, here: emptied
Rollback ==
    /\ pc \in {"idle", "done"}
    /\ Cardinality({i \in 1..Len(events) :
                       events[i].op \in {"rollback", "rejected"}}) < MaxRollbacks
    /\ \E backupId \in {backups[i].id : i \in 1..Len(backups)} \cup {"backup-0"},
          outcome \in RollbackOutcomes :
         LET found == BackupNamed(backupId)
             here  == fs[Dir(projectRoot)]
         IN  IF found = <<>>
             THEN /\ events' = Append(events,
                                      Event("rejected", "Backup " \o backupId \o " not found"))
                  /\ fs' = fs
             ELSE IF outcome = "failed"
             THEN /\ events' = Append(events, Event("rejected", "Rollback failed"))
                  /\ fs' = [fs EXCEPT ![Dir(projectRoot)] =
                                [EmptyTree EXCEPT !.peers = here.peers]]
             ELSE /\ events' = Append(events, Event("rollback", backupId))
                  /\ fs' = [fs EXCEPT ![Dir(projectRoot)] =
                                [Snapshot(found[1].tree) EXCEPT !.peers = here.peers]]
    /\ UNCHANGED <<backups, clock, targetVersion, projectRoot, issues, fixes, reactFiles,
                   options, backupInfo, pc, queue, calls, entry, packageJson, last, start>>

\* a project with a source file whose name starts with backup-, and one
\* without
BackupProjects ==
    {Tree(PackageJson(m), src, cfg) :
        m \in {n \in ProjectManifests : Truthy(Get(n.deps, "react"))},
        src \in {[exists |-> TRUE,
                  files |-> <<File("index.js", Segments[2] \o Segments[6]),
                              File("backup-utils.js", Segments[20])>>],
                 [exists |-> TRUE,
                  files |-> <<File("index.js", Segments[2] \o Segments[6])>>]},
        cfg \in {c \in ProjectConfigs : c.tsconfig.exists /\ c.tsconfig.parses}}

InitBackup == \E project \in BackupProjects : Constructed(ProjectAt(project))

NextBackup ==
    \/ MigrateDirect
    \/ CreateBackup
    \/ AnalyzeProject
    \/ UpdateDependencies
    \/ TransformCode
    \/ TransformNext
    \/ UpdateConfiguration
    \/ GenerateReport
    \/ Rollback

SpecBackup == InitBackup /\ [][NextBackup]_vars

(***************************************************************************)
(* Several migrate() calls, one after the other, on one instance: a call   *)
(* that ended in process.exit(1) is the last one of its process.           *)
(***************************************************************************)
MaxSequence == 2

\* a project with two source files and every configuration file, one that
\* lists react as a development dependency only, and one without a src
\* directory
SeqProjects ==
    {t \in Projects :
        /\ t.pkg.exists
        /\ Truthy(Get(t.pkg.json.deps, "react")) \/ Truthy(Get(t.pkg.json.dev, "react"))
        /\ \/ /\ Len(t.src.files) = 2 /\ t.tsconfig.exists /\ t.tsconfig.parses
              /\ Truthy(Get(t.pkg.json.deps, "react"))
           \/ /\ Len(t.src.files) = 1 /\ ~t.tsconfig.exists
              /\ ~Truthy(Get(t.pkg.json.deps, "react"))
           \/ /\ ~t.src.exists /\ ~t.tsconfig.exists
              /\ Truthy(Get(t.pkg.json.deps, "react"))}

SeqVersions == {"17", "18"}

SeqOptions ==
    {NoOptions,
     [NoOptions EXCEPT !.dryRun = TRUE],
     [NoOptions EXCEPT !.createBackup = TRUE],
     [NoOptions EXCEPT !.skipDeps = TRUE],
     [NoOptions EXCEPT !.depsOnly = TRUE]}

\* what the second directory holds: nothing, or a package that lists react
\* and has no src directory
SeqSecond ==
    {EmptyTree,
     [EmptyTree EXCEPT !.pkg = PackageJson([deps |-> Section("react" :> "^16.0.0"),
                                            dev  |-> AbsentSection])]}

InitSeq ==
    \E project \in SeqProjects, second \in SeqSecond :
        Constructed([r \in Roots |-> IF r = Cwd THEN project ELSE second])

\* the caller calls migrate again once the call before has returned
MigrateAgain ==
    /\ pc \in {"idle", "done"}
    /\ calls < MaxSequence
    /\ \E tv \in SeqVersions, p \in ProjectPaths, o \in SeqOptions :
           migrate(tv, p, o, "migrate")

NextSeq ==
    \/ MigrateAgain
    \/ CreateBackup
    \/ AnalyzeProject
    \/ UpdateDependencies
    \/ TransformCode
    \/ TransformNext
    \/ UpdateConfiguration
    \/ GenerateReport

SpecSeq == InitSeq /\ [][NextSeq]_vars

(***************************************************************************)
(* Properties.                                                             *)
(***************************************************************************)
\* a migrate() call has been entered (directly or from a command)
InMigrate == entry \in {"migrate", "default", "check"}

\* the running call has done one of these operations to the outside
DidSince(n, ops) == \E i \in (n + 1)..Len(events) : events[i].op \in ops

\* the running call has read or written a file of src
TouchedSrcSince(n) ==
    \E i \in (n + 1)..Len(events) :
        /\ events[i].op \in {"read", "write"}
        /\ events[i].arg \in {"src/index.js", "src/App.jsx"}

\* how many times the entry appears in s after position n
CountSince(s, n, e) == Cardinality({i \in (n + 1)..Len(s) : s[i] = e})

\* C1: in a migrate() call with dryRun set nothing is persisted: every file
\* of every project tree (package.json, the files of src, tsconfig.json,
\* jest.config.js, .eslintrc.js) keeps its bytes, the installer is not
\* invoked and no backup is made.
C1_DryRunPersistsNothing ==
    (InMigrate /\ options.dryRun) =>
        /\ \A r \in Roots : fs[r] = start.fs[r]
        /\ backups = start.backups
        /\ ~DidSince(start.events, {"write", "install", "backup"})

\* a dry run that ran to its end on a project where a real run would have
\* written package.json, a source file and the three configuration files
C1_Witness ==
    /\ InMigrate /\ options.dryRun /\ pc = "done"
    /\ CountSince(fixes, Len(start.fixes), "Would transform index.js (dry run)") = 1
    /\ CountSince(fixes, Len(start.fixes),
                  "Would update package.json with new React versions (dry run)") = 1
    /\ fs[Dir(projectRoot)].tsconfig.exists /\ fs[Dir(projectRoot)].tsconfig.parses
    /\ fs[Dir(projectRoot)].jest.exists /\ fs[Dir(projectRoot)].eslint.exists

\* C2: an operation that receives a target version outside {17, 18, 19}
\* fails before mutating anything: no file is written, no source file is
\* read for transformation, the installer is not run, no backup is made.
C2_InvalidVersionMutatesNothing ==
    (InMigrate /\ targetVersion \notin SupportedVersions) =>
        /\ fs = start.fs
        /\ backups = start.backups
        /\ ~DidSince(start.events, {"write", "install", "backup"})
        /\ ~TouchedSrcSince(start.events)

\* the precondition of analyzeProject fails on this tree
PreconditionFails(tree) ==
    \/ ~tree.pkg.exists
    \/ /\ tree.pkg.parses
       /\ ~Truthy(Get(tree.pkg.json.deps, "react"))
       /\ ~Truthy(Get(tree.pkg.json.dev, "react"))

\* C3: when package.json is missing or lists react in neither section,
\* migrate() fails before any mutation, for every option set: once the
\* analysis is over the process has exited with status 1, no file and no
\* backup has been written, nothing has been appended to fixes and the
\* installer has not run.
C3_PreconditionFailsBeforeMutation ==
    (/\ InMigrate
     /\ PreconditionFails(start.fs[Dir(projectRoot)])
     /\ pc \notin {"backup", "analyze"}) =>
        /\ pc = "exited"
        /\ events[Len(events)] = Event("exit", "1")
        /\ fs = start.fs
        /\ backups = start.backups
        /\ Len(fixes) = Len(start.fixes)
        /\ ~DidSince(start.events, {"write", "install", "backup"})

\* the keys of a section, and whether the manifest has the section at all
SameKeys(a, b) == a.has = b.has /\ DOMAIN a.ent = DOMAIN b.ent

\* C4: for every input manifest and every target version, the manifest that
\* updateDependencies produces has the key set of the input in dependencies
\* and in devDependencies: no key added, none removed, an absent section
\* stays absent; on a real run this is the manifest written to package.json.
C4_KeySetPreserved ==
    (entry = "updateDependencies" /\ packageJson.ran) =>
        /\ SameKeys(packageJson.after.deps, packageJson.before.deps)
        /\ SameKeys(packageJson.after.dev, packageJson.before.dev)
        /\ ~options.dryRun => fs[Dir(projectRoot)].pkg.json = packageJson.after

\* a real run that changed values of a manifest without devDependencies
\* and without react-dom
C4_Witness ==
    /\ entry = "updateDependencies" /\ packageJson.ran /\ ~options.dryRun
    /\ ~packageJson.before.dev.has
    /\ DOMAIN packageJson.before.deps.ent = {"react", "react-router-dom"}
    /\ packageJson.after # packageJson.before
    /\ fs[Dir(projectRoot)].pkg.json = packageJson.after

\* the section lists the package
Present(sec, pkg) == pkg \in Keys(sec)

\* C5: for every target version of {17, 18, 19} and every manifest that
\* passes the precondition (react as a direct or a development dependency),
\* updateDependencies sets the range of react to '^' + targetVersion where
\* react is listed, and every package absent from the manifest stays absent.
C5_ReactSetToTarget ==
    (/\ entry = "updateDependencies" /\ packageJson.ran
     /\ targetVersion \in SupportedVersions
     /\ \/ Truthy(Get(packageJson.before.deps, "react"))
        \/ Truthy(Get(packageJson.before.dev, "react"))) =>
        /\ Present(packageJson.before.deps, "react") =>
               Get(packageJson.after.deps, "react") = "^" \o targetVersion
        /\ Present(packageJson.before.dev, "react") =>
               Get(packageJson.after.dev, "react") = "^" \o targetVersion
        /\ Keys(packageJson.after.deps) \subseteq Keys(packageJson.before.deps)
        /\ Keys(packageJson.after.dev) \subseteq Keys(packageJson.before.dev)

\* the entry of the related-package table for a package at a supported
\* target version
TableEntry(pkg, tv) ==
    LET i == CHOOSE j \in 1..Len(PackageTable) : PackageTable[j][1] = pkg
    IN  PackageTable[i][CASE tv = "17" -> 2 [] tv = "18" -> 3 [] tv = "19" -> 4]

\* C6: for every target version of {17, 18, 19} and every package of the
\* related-package table that the manifest lists, updateDependencies replaces
\* its range by the table's entry for the target version in each section
\* that lists it; react-router-dom at target 19 becomes '^6.20.0'.
C6_TablePackagesReplaced ==
    (/\ entry = "updateDependencies" /\ packageJson.ran
     /\ targetVersion \in SupportedVersions) =>
        /\ \A pkg \in TablePackages :
              /\ Present(packageJson.before.deps, pkg) =>
                     Get(packageJson.after.deps, pkg) = TableEntry(pkg, targetVersion)
              /\ Present(packageJson.before.dev, pkg) =>
                     Get(packageJson.after.dev, pkg) = TableEntry(pkg, targetVersion)
        /\ (targetVersion = "19" /\ Present(packageJson.before.deps, "react-router-dom")) =>
               Get(packageJson.after.deps, "react-router-dom") = "^6.20.0"

\* the last transformFile call changed the content
LastChanged == ~SameText(last.transformedContent, last.content)

\* the last transformFile call wrote its file
LastWrote ==
    \E i \in (last.eventsBefore + 1)..Len(events) :
        events[i] = Event("write", "src/" \o last.fileName)

\* the content of the last transformed file on disk
LastOnDisk == ReadFile(FilePath(projectRoot, last.fileName))

\* how often the last transformFile call logged each write-back entry
LastTransformed ==
    CountSince(fixes, last.fixesBefore, "Transformed " \o last.fileName)

LastWouldTransform ==
    CountSince(fixes, last.fixesBefore, "Would transform " \o last.fileName \o " (dry run)")

\* C7: for every file transformFile processes: when the final content
\* differs from the original, exactly one of two things happens: the file is
\* overwritten and 'Transformed <file>' is logged (not dry run), or 'Would
\* transform <file> (dry run)' is logged and the file is not written (dry
\* run); when the content did not change, the file is not written and no
\* write-back entry is logged.
C7_WriteBackPolicy ==
    last.valid =>
        IF LastChanged
        THEN \/ /\ ~options.dryRun
                /\ LastWrote /\ LastOnDisk = last.transformedContent
                /\ LastTransformed = 1 /\ LastWouldTransform = 0
             \/ /\ options.dryRun
                /\ ~LastWrote /\ LastOnDisk = last.content
                /\ LastTransformed = 0 /\ LastWouldTransform = 1
        ELSE /\ ~LastWrote /\ LastOnDisk = last.content
             /\ LastTransformed = 0 /\ LastWouldTransform = 0

\* a real run of migrate() overwrote a file whose content the rules changed
C7_Witness ==
    /\ InMigrate /\ last.valid /\ LastChanged /\ ~options.dryRun
    /\ LastWrote /\ LastTransformed = 1
    /\ LastOnDisk = last.transformedContent

\* the tokens by which the six rules recognise their patterns
PatternTokens ==
    {"ReactDOM.render(", "componentWillMount", "componentWillReceiveProps",
     "componentWillUpdate", "SyntheticEvent", "React.PropTypes", "React.FC",
     "React.FunctionComponent", "class"}

NoPattern(content) == \A i \in 1..Len(content) : content[i] \notin PatternTokens

\* C8: for every target version, transformFile on a content that holds no
\* pattern of any rule returns the content it was given, does not write the
\* file and appends nothing to fixes or to issues.
C8_NoPatternNoChange ==
    (entry = "transformFile" /\ last.valid /\ NoPattern(last.content)) =>
        /\ last.transformedContent = last.content
        /\ LastOnDisk = last.content
        /\ ~LastWrote
        /\ Len(fixes) = last.fixesBefore
        /\ Len(issues) = last.issuesBefore
        /\ fs = start.fs

\* a real run at target 18 over a file of imports and plain code
C8_Witness ==
    /\ entry = "transformFile" /\ last.valid /\ ~options.dryRun
    /\ targetVersion = "18"
    /\ last.content = Segments[2] \o Segments[20]
    /\ last.transformedContent = last.content

\* the fix entries of the render-API, lifecycle-method and PropTypes rules
RuleFixes(fileName) ==
    {fileName \o ": Updated ReactDOM.render to createRoot API",
     fileName \o ": Replaced componentWillMount with componentDidMount",
     fileName \o ": Replaced componentWillReceiveProps with componentDidUpdate",
     fileName \o ": Replaced componentWillUpdate with componentDidUpdate",
     fileName \o ": Migrated React.PropTypes to prop-types package"}

\* C9: idempotence: a second application of the pipeline, to the output
\* that the first application wrote, changes nothing in the content and logs
\* no fix of the render-API rule, the lifecycle-method rule or the PropTypes
\* rule.
C9_SecondPassIdempotent ==
    (entry = "transformFile" /\ calls >= 2 /\ last.valid /\ ~options.dryRun) =>
        /\ ~LastChanged
        /\ \A i \in (last.fixesBefore + 1)..Len(fixes) :
               fixes[i] \notin RuleFixes(last.fileName)

\* the tokens that end with an opening parenthesis
OpenParenTokens ==
    {"(", "ReactDOM.render(", "document.getElementById(", "this.setState(",
     "const root = createRoot(", "root.render("}

RECURSIVE ParenScan(_, _, _)
\* the position of the parenthesis that closes the depth-th open one, from j
ParenScan(s, j, depth) ==
    IF j > Len(s) THEN 0
    ELSE IF s[j] = ")"
    THEN IF depth = 1 THEN j ELSE ParenScan(s, j + 1, depth - 1)
    ELSE IF s[j] \in OpenParenTokens THEN ParenScan(s, j + 1, depth + 1)
    ELSE ParenScan(s, j + 1, depth)

\* the parenthesis that matches the one that token i opens
MatchingParen(s, i) == ParenScan(s, i + 1, 1)

\* C10: with a target version >= 18, transformReactDOMRender replaces each
\* call ReactDOM.render(<element>, <container>) by 'const root =
\* createRoot(<container>);' and 'root.render(<element>)', the container
\* being the argument text up to the parenthesis that matches the opening
\* one of the call; ReactDOM.render(<App/>, document.getElementById('root'))
\* gives the container document.getElementById('root') and leaves nothing of
\* the call behind.
C10_ContainerUpToMatchingParen ==
    (entry = "transformFile" /\ last.valid /\ StrGE(targetVersion, "18")) =>
        /\ \A i \in 1..Len(last.content) :
               RenderMatch(last.content, i).ok =>
                   /\ RenderMatch(last.content, i).end = MatchingParen(last.content, i)
                   /\ RenderMatch(last.content, i).ct = MatchingParen(last.content, i) - 1
        /\ last.content = Segments[6] =>
               Flat(last.stages[1].content) =
                   "const root = createRoot(document.getElementById('root'));\n"
                       \o "root.render(<App/>);\n"

\* what rule n was given and what it returned in the last transformFile
\* call, and the entries it appended to fixes and to issues
RuleIn(n) == IF n = 1 THEN last.content ELSE last.stages[n - 1].content

RuleOut(n) == last.stages[n].content

RuleFixesLogged(n) ==
    SubSeq(last.stages[n].fixes,
           (IF n = 1 THEN 0 ELSE Len(last.stages[n - 1].fixes)) + 1,
           Len(last.stages[n].fixes))

RuleIssuesLogged(n) ==
    SubSeq(last.stages[n].issues,
           (IF n = 1 THEN 0 ELSE Len(last.stages[n - 1].issues)) + 1,
           Len(last.stages[n].issues))

\* the three deprecated names, each with the name that replaces it
LifecycleNames ==
    {<<"componentWillMount", "componentDidMount">>,
     <<"componentWillReceiveProps", "componentDidUpdate">>,
     <<"componentWillUpdate", "componentDidUpdate">>}

\* C11: transformLifecycleMethods replaces every occurrence of
\* componentWillMount, componentWillReceiveProps and componentWillUpdate;
\* exactly one fix entry is logged for each of the three names that is
\* found, none for a name that is not, and each entry stands for a
\* replacement that was made: no occurrence of the name is left.
C11_LifecycleReplacedAndLogged ==
    (entry = "transformFile" /\ last.valid) =>
        \A n \in LifecycleNames :
            /\ ~Includes(RuleOut(2), n[1])
            /\ CountSince(RuleFixesLogged(2), 0,
                          last.fileName \o ": Replaced " \o n[1] \o " with " \o n[2])
                  = IF Includes(RuleIn(2), n[1]) THEN 1 ELSE 0

\* the first statement of the content that imports React or ReactDOM: the
\* position of its semicolon, 0 when there is no such statement
FirstReactImportEnd(s) ==
    LET i == FirstIdx({j \in 1..Len(s) :
                          s[j] \in {"import React from 'react'",
                                    "import ReactDOM from 'react-dom'",
                                    "import ReactDOM from \"react-dom\""}})
    IN  IF i = 0 THEN 0 ELSE NextTok(s, i, ";")

\* C12: when the content uses React.PropTypes, after transformPropTypes the
\* content holds the import "import PropTypes from 'prop-types'" (put right
\* after the first React import statement when it was not there before),
\* holds no occurrence of React.PropTypes, and exactly one fix entry has
\* been logged for the file.
C12_PropTypesImported ==
    (entry = "transformFile" /\ last.valid /\ Includes(RuleIn(4), "React.PropTypes")) =>
        /\ Includes(RuleOut(4), ImportPropTypes)
        /\ ~Includes(RuleOut(4), "React.PropTypes")
        /\ RuleFixesLogged(4) =
               <<last.fileName \o ": Migrated React.PropTypes to prop-types package">>
        /\ (~Includes(RuleIn(4), ImportPropTypes) /\ FirstReactImportEnd(RuleIn(4)) # 0) =>
               LET k == FirstReactImportEnd(RuleIn(4))
               IN  SubSeq(RuleOut(4), k + 1, k + 3) = <<"\n", ImportPropTypes, ";">>

\* s is an initial part of t
IsPrefix(s, t) == Len(s) <= Len(t) /\ SubSeq(t, 1, Len(s)) = s

\* C13: across a sequence of migrate() calls on one instance fixes and
\* issues are append-only and never cleared: no step, the entry of a later
\* call included, removes or changes an entry that is there, so the lists
\* at the end of one call are initial parts of the lists at every later
\* point.
C13_LogsAppendOnly ==
    [][IsPrefix(fixes, fixes') /\ IsPrefix(issues, issues')]_vars

\* a second call has ended, and its report holds entries of the first
C13_Witness ==
    /\ calls = 2 /\ pc = "done"
    /\ start.fixes # <<>> /\ start.issues # <<>>
    /\ IsPrefix(start.fixes, fixes) /\ Len(fixes) > Len(start.fixes)
    /\ IsPrefix(start.issues, issues)

\* how many events of this kind the running call has produced
EventsSince(op) ==
    Cardinality({i \in (start.events + 1)..Len(events) : events[i].op = op})

C15_FieldsOfLatestCall ==
    (entry = "migrate" /\ start.args # <<>>) =>
        /\ targetVersion = start.args[1]
        /\ options = start.args[3]
        /\ projectRoot = IF start.args[2] = Undefined THEN Cwd ELSE start.args[2]

\* a second call, with the empty string as project path, has returned
C15_Witness ==
    /\ entry = "migrate" /\ calls = 2 /\ pc = "done"
    /\ start.args[2] = "" /\ projectRoot = ""
    /\ start.args[1] = "17" /\ start.args[3].dryRun

\* the entry of a dry run that stands for this entry of a real run
WouldPhrasing(e) ==
    CASE e = "Updated package.json with new React versions" ->
             "Would update package.json with new React versions (dry run)"
      [] e = "Transformed index.js" -> "Would transform index.js (dry run)"
      [] e = "Transformed App.jsx" -> "Would transform App.jsx (dry run)"
      [] e = "Updated Jest configuration for React compatibility" ->
             "Would update Jest configuration (dry run)"
      [] e = "Updated ESLint configuration for React compatibility" ->
             "Would update ESLint configuration (dry run)"
      [] OTHER -> e

\* a dry run has returned and a real run of the same target version and
\* project path, with the same other options, has followed it and returned
DryThenReal ==
    /\ entry = "migrate" /\ calls = 2 /\ pc = "done"
    /\ start.previous # <<>>
    /\ start.previous[1] = start.args[1]
    /\ start.previous[2] = start.args[2]
    /\ start.previous[3] = [start.args[3] EXCEPT !.dryRun = TRUE]
    /\ ~start.args[3].dryRun

\* C16: for the same project state and target version a dry run and a real
\* run give fix and issue logs with equivalent entries in the same order,
\* which differ only by the 'would' phrasing of the entries for what the
\* dry run did not do. (The dry run leaves the project as it is, so the
\* real run that follows it starts from the same project state; the logs of
\* the dry run are the ones the real run starts with.)
C16_DryRunLogEquivalent ==
    DryThenReal =>
        LET realFixes  == SubSeq(fixes, Len(start.fixes) + 1, Len(fixes))
            realIssues == SubSeq(issues, Len(start.issues) + 1, Len(issues))
        IN  /\ start.fixes = [i \in 1..Len(realFixes) |-> WouldPhrasing(realFixes[i])]
            /\ start.issues = realIssues

\* the tree without its node_modules
OutsideNodeModules(tree) == [tree EXCEPT !.peers = NoEntries]

\* C17: backup then rollback is a round trip: createBackup writes a full
\* copy of the project tree that leaves out only node_modules and earlier
\* backup directories, and a later successful rollback of that backup, after
\* what a migration changed, gives every file and directory of the project
\* outside node_modules the content it had when the backup was made.
C17_BackupRollbackRoundTrip ==
    \A i \in 1..Len(backups) :
        backups[i].complete =>
            /\ backups[i].tree = OutsideNodeModules(backups[i].origin)
            /\ (/\ events # <<>>
                /\ events[Len(events)] = Event("rollback", backups[i].id)
                /\ backups[i].root = Dir(projectRoot)) =>
                   OutsideNodeModules(fs[Dir(projectRoot)])
                       = OutsideNodeModules(backups[i].origin)

\* how often the running call has written this file
WritesSince(name) ==
    Cardinality({i \in (start.events + 1)..Len(events) : events[i] = Event("write", name)})

\* the project tree as the running call found it
TreeAtStart == start.fs[Dir(projectRoot)]

CallEvents == (start.events + 1)..Len(events)

\* C19: within one migrate() call the installer is invoked at most once,
\* only after package.json has been written, never in a dry run and never
\* with skipDeps; the transform-code phase starts only when the installer
\* has returned or failed; package.json is written at most once.
C19_InstallOnceAfterWrite ==
    InMigrate =>
        /\ EventsSince("install") <= 1
        /\ WritesSince("package.json") <= 1
        /\ \A i \in CallEvents :
               events[i].op = "install" =>
                   \E j \in CallEvents : j < i /\ events[j] = Event("write", "package.json")
        /\ (options.dryRun \/ options.skipDeps) =>
               EventsSince("install") = 0 /\ WritesSince("package.json") = 0
        /\ (~options.dryRun /\ ~options.skipDeps) =>
               /\ pc \in {"transform", "files", "config", "report", "done"} =>
                      EventsSince("install") = 1
               /\ \A i \in CallEvents :
                      (events[i].op \in {"read", "write"}
                          /\ events[i].arg \in {"src/index.js", "src/App.jsx"}) =>
                          \E j \in CallEvents : j < i /\ events[j].op = "install"

\* a real run in which the installer failed and a source file was
\* rewritten afterwards
C19_Witness ==
    /\ InMigrate /\ pc = "done" /\ ~options.dryRun /\ ~options.skipDeps
    /\ \E i \in CallEvents : events[i] = Event("install", "failed")
    /\ WritesSince("package.json") = 1
    /\ WritesSince("src/index.js") = 1

\* how many issue entries that start with this text the running call has
\* appended, for the texts of the entries of the model
IssuesSince(e) == CountSince(issues, Len(start.issues), e)

\* the configuration pass of the running call is over
ConfigurationDone == pc \in {"report", "done"} /\ ~options.depsOnly

\* C20: a failure of a sub-step (the installer fails, tsconfig.json or the
\* Jest or ESLint configuration cannot be parsed, the backup cannot be made)
\* is recovered where it happens: it appends one issue entry, the file that
\* could not be parsed is left as it is, and the migration goes on and ends
\* as successful without a call of exit: the only errors that end a run are
\* those of the phases themselves.
C20_SubStepFailureRecovered ==
    InMigrate =>
        /\ IssuesSince("Failed to install dependencies: " \o InstallError) =
               Cardinality({i \in CallEvents : events[i] = Event("install", "failed")})
        /\ \A o \in {"mkdirFailed", "copyFailed"} :
               IssuesSince("Failed to create backup: " \o o) =
                   Cardinality({i \in CallEvents : events[i] = Event("backup", o)})
        /\ (ConfigurationDone /\ TreeAtStart.tsconfig.exists /\ ~TreeAtStart.tsconfig.parses) =>
               /\ IssuesSince("Failed to update tsconfig.json: " \o ParseError) = 1
               /\ fs[Dir(projectRoot)].tsconfig = TreeAtStart.tsconfig
               /\ WritesSince("tsconfig.json") = 0
        /\ (ConfigurationDone /\ TreeAtStart.jest.exists
               /\ TreeAtStart.jest.form \notin {"json", "exports"}) =>
               /\ IssuesSince("Failed to update Jest configuration: " \o ParseError) = 1
               /\ fs[Dir(projectRoot)].jest = TreeAtStart.jest
               /\ WritesSince("jest.config.js") = 0
        /\ (ConfigurationDone /\ TreeAtStart.eslint.exists
               /\ TreeAtStart.eslint.form \notin {"json", "exports"}) =>
               /\ IssuesSince("Failed to update ESLint configuration: " \o ParseError) = 1
               /\ fs[Dir(projectRoot)].eslint = TreeAtStart.eslint
               /\ WritesSince(".eslintrc.js") = 0
        /\ (entry # "default" /\ ~PreconditionFails(TreeAtStart) /\ TreeAtStart.pkg.parses) =>
               pc # "exited" /\ EventsSince("exit") = 0

\* a run in which the backup, the installer and the three configuration
\* files all failed, and which ended as successful
C20_Witness ==
    /\ InMigrate /\ pc = "done" /\ EventsSince("exit") = 0
    /\ \E i \in CallEvents : events[i] = Event("backup", "copyFailed")
    /\ \E i \in CallEvents : events[i] = Event("install", "failed")
    /\ IssuesSince("Failed to update tsconfig.json: " \o ParseError) = 1
    /\ IssuesSince("Failed to update Jest configuration: " \o ParseError) = 1
    /\ IssuesSince("Failed to update ESLint configuration: " \o ParseError) = 1
    /\ events[Len(events)] = Event("completed", "")

\* the events of the running call, in order
CallTrace == SubSeq(events, start.events + 1, Len(events))

SrcNames == {"src/index.js", "src/App.jsx", "src/backup-utils.js"}

ConfigNames == {"tsconfig.json", "jest.config.js", ".eslintrc.js"}

\* the reads of source files by the running call, in order
SrcReads == SelectSeq(CallTrace, LAMBDA e : e.op = "read" /\ e.arg \in SrcNames)

\* the phase an event belongs to: 1 the backup, 2 the analysis and the
\* dependency update, 3 the transformation, 4 the configuration pass, 5 the
\* report, 6 the end of the call
PhaseRank(e) ==
    CASE e.op = "migrate" -> 0
      [] e.op = "backup" -> 1
      [] e.op = "install" -> 2
      [] e.op \in {"read", "write"} /\ e.arg = "package.json" -> 2
      [] e.op \in {"read", "write"} /\ e.arg \in SrcNames -> 3
      [] e.op \in {"read", "write"} /\ e.arg \in ConfigNames -> 4
      [] e.op = "report" -> 5
      [] OTHER -> 6

\* the content the file had when the running call began
StartContent(f) ==
    LET files == TreeAtStart.src.files
    IN  files[CHOOSE i \in 1..Len(files) : files[i].name = f.name].content

\* the recorded files that the --files filter lets through, and of those the
\* ones the --components filter lets through
PassFiles ==
    IF Truthy(options.files)
    THEN SelectSeq(reactFiles, LAMBDA f : f.name = "App.jsx" /\ options.files = "App")
    ELSE reactFiles

PassComponents ==
    IF Truthy(options.components)
    THEN SelectSeq(PassFiles,
                   LAMBDA f : \E i \in 1..(Len(StartContent(f)) - 2) :
                                 /\ StartContent(f)[i] \in {"class", "function", "const"}
                                 /\ StartContent(f)[i + 1] = " "
                                 /\ StartContent(f)[i + 2] = options.components)
    ELSE PassFiles

\* what a successful call shows of its phases, but for the source files it
\* reads: the order of the phases, and which of them ran
PhasesInOrder ==
    /\ \A i, j \in CallEvents : i < j => PhaseRank(events[i]) <= PhaseRank(events[j])
    /\ EventsSince("report") = 1
    /\ events[Len(events)] = Event("completed", "")
    /\ Len(SelectSeq(CallTrace, LAMBDA e : e = Event("read", "package.json"))) =
           IF options.skipDeps THEN 1 ELSE 2
    /\ packageJson.ran <=> ~options.skipDeps
    /\ options.depsOnly =>
           \A i \in CallEvents : events[i].op \in {"read", "write"} =>
                                      events[i].arg = "package.json"
    /\ ~options.depsOnly =>
           \A name \in ConfigNames :
               Len(SelectSeq(CallTrace, LAMBDA e : e = Event("read", name))) =
                   IF \/ name = "tsconfig.json" /\ TreeAtStart.tsconfig.exists
                      \/ name = "jest.config.js" /\ TreeAtStart.jest.exists
                      \/ name = ".eslintrc.js" /\ TreeAtStart.eslint.exists
                   THEN 1 ELSE 0

\* the claim as the specification words it: a successful call runs analyze,
\* update-dependencies, transform-code, update-configuration and report in
\* this order, and when transform-code runs it reads every discovered source
\* file once, in discovery order.
C21_OncePerDiscoveredFile ==
    (InMigrate /\ pc = "done") =>
        /\ PhasesInOrder
        /\ ~options.depsOnly => SrcReads = ReadEvents(reactFiles)

\* C21: a successful migrate() runs its phases in the order analyze,
\* update-dependencies, transform-code, update-configuration, report;
\* update-dependencies is skipped exactly when skipDeps is set,
\* transform-code and update-configuration exactly when depsOnly is set;
\* transform-code transforms, once each and in discovery order, the
\* discovered files that the --files and --components filters let through
\* (the --components filter reads the files it is asked about first).
C21_PhasesInOrder ==
    (InMigrate /\ pc = "done") =>
        /\ PhasesInOrder
        /\ ~options.depsOnly =>
               SrcReads = (IF Truthy(options.components) THEN ReadEvents(PassFiles)
                           ELSE <<>>) \o ReadEvents(PassComponents)

\* a successful call that found two files and transformed the one the
\* --files filter names, after the dependency update and before the
\* configuration pass
C21_Witness ==
    /\ InMigrate /\ pc = "done" /\ ~options.skipDeps /\ ~options.depsOnly
    /\ options.files = "App"
    /\ Len(reactFiles) = 2 /\ TreeAtStart.src.exists
    /\ SrcReads = <<Event("read", "src/App.jsx")>>
    /\ WritesSince("package.json") = 1
    /\ \E i \in CallEvents : events[i] = Event("read", "tsconfig.json")

\* the major version of a range as the specification reads it: the integer
\* before the first ".", 0 when there is none
RangeMajor(range) ==
    CASE range \in {"^16", "^16.8.0"} -> 16
      [] range \in {"^17", "^17.0.0"} -> 17
      [] range \in {"^18", "^18.2.0", "~18.0.0", "18"} -> 18
      [] range = "^19" -> 19
      [] range = "^20" -> 20
      [] range = "17.x || 18.x" -> 17
      [] OTHER -> 0

\* the dependencies that the peer analysis looks at: those whose name holds
\* the text "react", but for react and react-dom
PeerChecked ==
    ((Keys(packageJson.before.deps) \cup Keys(packageJson.before.dev))
        \ NoReactInName) \ {"react", "react-dom"}

\* those of them that are installed with a peer range on react whose major
\* version is not that of the target
Mismatching ==
    {pkg \in PeerChecked :
        /\ pkg \in DOMAIN TreeAtStart.peers
        /\ RangeMajor(TreeAtStart.peers[pkg]) # RangeMajor("^" \o targetVersion)}

\* the issue line of the package
ConflictLine(pkg) ==
    "  - " \o pkg \o " requires React " \o TreeAtStart.peers[pkg]
        \o " but we're upgrading to ^" \o targetVersion

\* the issue entries of the running call, but for that of a failed install
PeerIssues ==
    SelectSeq(SubSeq(issues, Len(start.issues) + 1, Len(issues)),
              LAMBDA e : e # "Failed to install dependencies: " \o InstallError)

\* what the original and the amended statement share: one line for each
\* mismatching package and for no other, and the manifest update goes on
PeerLines ==
    /\ \A pkg \in Mismatching : IssuesSince(ConflictLine(pkg)) = 1
    /\ \A pkg \in DOMAIN TreeAtStart.peers \ Mismatching :
           IssuesSince(ConflictLine(pkg)) = 0
    /\ packageJson.after = UpdateManifest(packageJson.before, targetVersion)
    /\ ~options.dryRun =>
           /\ WritesSince("package.json") = 1
           /\ fs[Dir(projectRoot)].pkg.json = packageJson.after

\* the claim as the specification words it: k mismatching packages add
\* exactly k issue entries.
C22_OneIssuePerConflict ==
    (entry = "updateDependencies" /\ packageJson.ran) =>
        /\ PeerLines
        /\ Len(PeerIssues) = Cardinality(Mismatching)

\* C22: for each dependency whose name contains 'react' other than react
\* and react-dom, an installed copy whose peer range on react has a major
\* version other than the target's appends exactly one issue line naming
\* the package and both versions; when there is at least one such package
\* the lines follow one heading entry, so that k > 0 mismatching packages
\* add k + 1 entries and none adds nothing; packages that are not
\* installed add nothing; the manifest update proceeds whatever the
\* conflicts.
C22_PeerConflictLines ==
    (entry = "updateDependencies" /\ packageJson.ran) =>
        /\ PeerLines
        /\ Len(PeerIssues) =
               IF Mismatching = {} THEN 0 ELSE Cardinality(Mismatching) + 1
        /\ Mismatching # {} => PeerIssues[1] = "Peer dependency conflicts detected:"

\* a real update of a manifest with three mismatching packages, next to
\* react-dom and lodash, which are installed with a peer range of another
\* major version too
C22_Witness ==
    /\ entry = "updateDependencies" /\ packageJson.ran /\ ~options.dryRun
    /\ targetVersion = "19"
    /\ Cardinality(Mismatching) = 3
    /\ Len(PeerIssues) = 4
    /\ {"react-dom", "lodash"} \subseteq DOMAIN TreeAtStart.peers
    /\ Get(packageJson.after.deps, "react") = "^19"

\* C23: isVersionCompatible compares major versions only: the major of a
\* range is the integer before its first ".", 0 for a range that is not
\* numeric or is missing, and two ranges are compatible exactly when their
\* majors are equal, so that two ranges that are not numeric are compatible
\* with each other.
C23_CompatibleIffMajorsEqual ==
    entry = "isVersionCompatible" =>
        LET call == events[Len(events)].arg
        IN  call.returns <=> (RangeMajor(call.version1) = RangeMajor(call.version2))

\* the entries that updateDependencies may give a new range
Updatable == {"react", "react-dom"} \cup TablePackages

\* every entry of the section before is in the section after, and those
\* that are not updatable have the range they had
Kept(before, after) ==
    /\ Keys(before) \subseteq Keys(after)
    /\ \A pkg \in Keys(before) \ Updatable : Get(after, pkg) = Get(before, pkg)

\* C24: updateDependencies leaves unchanged the range of every manifest
\* entry whose name is neither react, react-dom nor a package of the
\* related-package table, in dependencies and in devDependencies, and it
\* deletes no entry; on a real run this is so of the file it writes.
C24_OtherEntriesUnchanged ==
    (entry = "updateDependencies" /\ packageJson.ran) =>
        /\ Kept(packageJson.before.deps, packageJson.after.deps)
        /\ Kept(packageJson.before.dev, packageJson.after.dev)
        /\ ~options.dryRun =>
               /\ Kept(TreeAtStart.pkg.json.deps, fs[Dir(projectRoot)].pkg.json.deps)
               /\ Kept(TreeAtStart.pkg.json.dev, fs[Dir(projectRoot)].pkg.json.dev)

\* a real update that changed react and a package of the table in a manifest
\* that lists preact and lodash as well
C24_Witness ==
    /\ entry = "updateDependencies" /\ packageJson.ran /\ ~options.dryRun
    /\ Get(packageJson.before.deps, "preact") = "^10.0.0"
    /\ Get(packageJson.before.dev, "lodash") = "^4.17.0"
    /\ Get(packageJson.after.deps, "react") # Get(packageJson.before.deps, "react")
    /\ Get(packageJson.after.dev, "@testing-library/react")
           # Get(packageJson.before.dev, "@testing-library/react")
    /\ fs[Dir(projectRoot)].pkg.json = packageJson.after

\* the content the rule was given holds one of these texts
Mentions(n, texts) == \E i \in 1..Len(RuleIn(n)) : RuleIn(n)[i] \in texts

\* C25: the two advisory rules never change the content: transformEventHandlers
\* (rule 3) and transformReactFC (rule 5) return what they were given, log
\* no fix, and log exactly one issue entry for the file when their pattern
\* is there (SyntheticEvent; React.FC or React.FunctionComponent, one entry
\* even when both are there) and none otherwise.
C25_AdvisoryRulesOnlyAdvise ==
    (entry = "transformFile" /\ last.valid) =>
        /\ RuleOut(3) = RuleIn(3)
        /\ RuleOut(5) = RuleIn(5)
        /\ RuleFixesLogged(3) = <<>>
        /\ RuleFixesLogged(5) = <<>>
        /\ RuleIssuesLogged(3) =
               IF Mentions(3, {"SyntheticEvent"})
               THEN <<last.fileName \o ": Review SyntheticEvent usage - React 17+ uses native events">>
               ELSE <<>>
        /\ RuleIssuesLogged(5) =
               IF Mentions(5, {"React.FC", "React.FunctionComponent"})
               THEN <<last.fileName \o ": Consider replacing React.FC with explicit props typing">>
               ELSE <<>>

\* a file that holds both aliases, for which rule 5 logged one entry
C25_Witness ==
    /\ entry = "transformFile" /\ last.valid
    /\ Mentions(5, {"React.FC"}) /\ Mentions(5, {"React.FunctionComponent"})
    /\ Len(RuleIssuesLogged(5)) = 1
    /\ Len(issues) = last.issuesBefore + 1

\* this step is a call of rollback, and what it reported
RollbackStep == 
    /\ Len(events') = Len(events) + 1
    /\ events'[Len(events')].op \in {"rollback", "rejected"}

Reported == events'[Len(events')]

BackupIds == {backups[i].id : i \in 1..Len(backups)}

\* C26: rollback(backupId) for a backup directory that does not exist fails
\* with an error before it deletes or writes anything: the call is rejected
\* with "Backup <id> not found", and the project trees, the backups and the
\* logs of the tool are as they were; a rollback that goes further names a
\* backup that is there.
C26_MissingBackupRejected ==
    [][RollbackStep =>
          /\ Reported.op = "rollback" => Reported.arg \in BackupIds
          /\ backups = <<>> => Reported = Event("rejected", "Backup backup-0 not found")
          /\ (\E id \in {"backup-0"} \cup BackupIds :
                  Reported = Event("rejected", "Backup " \o id \o " not found")) =>
                 /\ Reported.arg = "Backup backup-0 not found"
                 /\ UNCHANGED <<fs, backups, issues, fixes>>]_vars

\* a rollback to a backup that is not there, rejected after a migration
\* that made another backup and left entries in the logs
C26_Witness ==
    /\ Len(events) > 0
    /\ events[Len(events)] = Event("rejected", "Backup backup-0 not found")
    /\ pc = "done"
    /\ backups # <<>>
    /\ fixes # <<>>
    /\ fs[Dir(projectRoot)].pkg.exists

\* the project tree but for node_modules
OutsideModules(tree) == [tree EXCEPT !.peers = NoEntries]

\* C30: rollback is all-or-nothing: when rollback(backupId) ends with an
\* error the project tree is as it was before the call, and when it ends
\* without one the project tree, node_modules apart, is the content of the
\* backup.
C30_RollbackAllOrNothing ==
    [][RollbackStep =>
          /\ Reported.op = "rejected" => fs' = fs
          /\ Reported.op = "rollback" =>
                 OutsideModules(fs'[Dir(projectRoot)]) = BackupNamed(Reported.arg)[1].tree]_vars

\* a component class with a single render method, from the class keyword
\* to the brace that closes the class body
SimpleClass == SubSeq(Segments[17], 1, Len(Segments[17]) - 1)

\* the positions at which the content holds this declaration
SimpleClassAt(s) ==
    {i \in 1..Len(s) :
        /\ i + Len(SimpleClass) - 1 <= Len(s)
        /\ SubSeq(s, i, i + Len(SimpleClass) - 1) = SimpleClass}

\* the emitted text is one function expression, const App = (props) => {
\* ... };, whose body is the return of the markup of render
IsFunctionOfApp(x) ==
    /\ Len(x) >= 15
    /\ SubSeq(x, 1, 13) =
           <<"const", " ", "App", " ", "=", " ", "(", "props", ")", " ", "=>", " ", "{">>
    /\ SubSeq(x, Len(x) - 1, Len(x)) = <<"}", ";">>
    /\ SelectSeq(SubSeq(x, 14, Len(x) - 2), LAMBDA t : t \notin WhiteSpace) =
           <<"return", "<div/>", ";">>

\* the output is the input with the declaration at position i replaced by
\* such a function, and nothing else added or left
ClassReEmitted(s, o, i) ==
    LET pre  == SubSeq(s, 1, i - 1)
        post == SubSeq(s, i + Len(SimpleClass), Len(s))
    IN  /\ Len(o) >= Len(pre) + Len(post)
        /\ SubSeq(o, 1, Len(pre)) = pre
        /\ SubSeq(o, Len(o) - Len(post) + 1, Len(o)) = post
        /\ IsFunctionOfApp(SubSeq(o, Len(pre) + 1, Len(o) - Len(post)))

\* C27: for a component class that extends React.Component and has a single
\* render method, transformClassToFunctional (rule 6) re-emits the whole
\* class, from the class keyword to the brace that closes the class body,
\* as one function expression const Name = (props) => { ... }; whose body
\* returns the markup of render, leaves no part of the class outside the
\* function, and logs one fix entry for the file.
C27_ClassReEmittedWhole ==
    (/\ entry = "transformFile" /\ last.valid
     /\ SimpleClassAt(RuleIn(6)) # {}
     /\ Cardinality({i \in 1..Len(RuleIn(6)) : RuleIn(6)[i] = "class"}) = 1) =>
        /\ \A i \in SimpleClassAt(RuleIn(6)) : ClassReEmitted(RuleIn(6), RuleOut(6), i)
        /\ RuleFixesLogged(6) =
               <<last.fileName \o ": Converted class component to functional component">>

\* C28: for any sequence of migrate() calls on one instance, every file
\* that the transform-code phase of a call reads or writes lies under the
\* src directory of the projectRoot of that call: the files queued for
\* transformation are files of that directory, the source files of every
\* other directory stay as they are, and a call on a project without a src
\* directory reads and writes no source file, even when an earlier call
\* discovered files.
C28_TransformStaysUnderRoot ==
    InMigrate =>
        /\ \A i \in 1..Len(queue) : Dir(queue[i].root) = Dir(projectRoot)
        /\ \A r \in Roots \ {Dir(projectRoot)} : fs[r].src = start.fs[r].src
        /\ ~TreeAtStart.src.exists => ~TouchedSrcSince(start.events)

\* the spellings of an import from react-dom
ReactDomImports == {ImportReactDOM, ImportRender, "import ReactDOM from \"react-dom\""}

\* C29: whenever transformReactDOMRender (rule 1) rewrites at least one
\* render call into createRoot(...), the content it returns holds an import
\* of createRoot from 'react-dom/client', however the import from react-dom
\* is spelled in the content it was given.
C29_CreateRootImported ==
    (/\ entry = "transformFile" /\ last.valid
     /\ \E i \in 1..Len(RuleIn(1)) : RuleIn(1)[i] \in ReactDomImports
     /\ Includes(RuleOut(1), "const root = createRoot(")) =>
        Includes(RuleOut(1), ImportCreateRoot)

====
